---- MODULE Spec2Model ----
(***************************************************************************)
(* Verification model of the trade execution and liquidity-routing engine. *)
(*   - checkLiquidityFast (src/src/lib/provider.ts, lines 132-181)         *)
(*   - estimateGasWithBuffer, executeBuy, executeSell                       *)
(*     (src/src/lib/trading.ts) and ensureApproval (src/unnamed/part_004)   *)
(* Every awaited contract call is one step; its outcome (value or failure)  *)
(* is read from the environment part of the state.                          *)
(***************************************************************************)
EXTENDS Integers, Sequences, FiniteSets, TLC

VARIABLES
    \* ---- liquidity resolver: environment ----
    pools,      \* per probe slot: what the factory and the WETH contract answer
    \* ---- liquidity resolver: checkLiquidityFast activation ----
    lpc,        \* position inside checkLiquidityFast
    feeIdx,     \* index of the for-loop over feeTiers
    pair,       \* local `pair` of the current try block
    calls,      \* contract calls made so far, in order
    result,     \* value returned (LiquidityResult)
    \* ---- trade executor: inputs and environment ----
    params,     \* TradeParams of the running executeBuy / executeSell
    chain,      \* what the router answers: its quote and the gas simulation
    \* ---- trade executor: executeBuy / executeSell activation ----
    tpc,        \* position inside executeBuy / executeSell
    amountIn,   \* amountInWei (buy) / amountInUnits (sell)
    quoted,     \* amounts[1] once getAmountsOut has answered
    amountOutMin,
    gasLimit,
    tlog,       \* network calls and transactions issued so far, in order
    swapTx,     \* the swap transaction handed to the router contract
    error,      \* message of the error the function threw
    \* ---- trade panel: props and React state of TradePanel ----
    props,      \* wallet, tokenInfo and liquidity handed to the panel
    mode,       \* "buy" | "sell"
    amount,     \* text of the amount input
    slippage,   \* text of the slippage input
    isExecuting,
    \* ---- trade panel: handleTrade activation ----
    hpc,        \* position inside handleTrade
    toasts,     \* events the latest request reported, in order
    outcome,    \* how the calls the latest request awaited ended
    completed,  \* invocations of onTradeComplete by the latest request
    requests,   \* handleTrade activations that passed validation
    inFlight,   \* of these, those that have not reached their finally block
    earlierSwaps, \* swaps handed to a router by earlier requests
    \* ---- price oracle: fetchEthPrice / fetchTokenPriceUsd ----
    now,        \* Date.now()
    cache,      \* _ethPriceCache
    ecalls,     \* the fetchEthPrice calls: position and what each did
    reads,      \* the successful oracle reads, in order of completion
    tcall,      \* the fetchTokenPriceUsd call
    \* ---- key custody: encryptKey / decryptKey ----
    kpc,        \* "start" | "encrypted" | "decrypted"
    privateKey, \* the key string handed to encryptKey
    password,   \* the password handed to encryptKey
    blob,       \* what encryptKey returned
    attempt,    \* the password handed to decryptKey
    decrypted,  \* what decryptKey returned, or that it rejected
    \* ---- wallet session: useWallet, WalletPanel and localStorage ----
    storage,     \* localStorage: the items it holds
    walletState, \* React state of useWallet
    formMode,    \* WalletPanel: "new" | "unlock"
    submit,      \* the connect / unlock call that handleSubmit awaits
    refreshes,   \* refreshBalance calls awaiting their reads, oldest first
    cleared,     \* disconnect has run and no connect has succeeded since
    \* ---- endpoint handles: getAlchemyProvider and what uses it ----
    jsonProvider, \* _jsonProvider: the handle held, NoHandle for null
    created,     \* JsonRpcProvider objects constructed so far
    handed,      \* the handles getAlchemyProvider has returned
    signer,      \* the wallet of connectHotWallet and the handle it sends through
    sent,        \* transactions submitted: what and through which handle
    lastRead,    \* the latest read: its function, the endpoints, its result
    \* ---- formatUsd ----
    usdValue,    \* the number handed to formatUsd
    usdText,     \* the string it returned
    \* ---- token reference: useTokenInfo.fetchAll ----
    tokenState,  \* React state of useTokenInfo
    fetchCall,   \* the latest fetchAll call: its input and how far it got
    \* ---- token descriptors: tokenInfoCache and getTokenInfo ----
    tokenInfoCache, \* the Map: its entries
    lookups,     \* the getTokenInfo calls: position, locals and result
    firstInfo,   \* the descriptor getTokenInfo returned first
    \* ---- token facade: overlapping fetchAll and reset calls ----
    facade,      \* React state of useTokenInfo under overlapping calls
    fetches,     \* the fetchAll calls: what each was given and returned
    latest,      \* the request issued last: a fetchAll call or a reset
    \* ---- call shape: from the liquidity prop to the swap call ----
    routeProps,  \* TradePanel props and mode: tokenInfo, liquidity, buy/sell
    tradeParams, \* the TradeParams handleTrade built, with the route it read
    swapCall,    \* the swap call executeBuy / executeSell made with them
    \* ---- approvals: ensureApproval over the sells of one wallet ----
    allowances,  \* on chain: the wallet's allowance per (token, router) pair
    approvals,   \* approve transactions submitted so far, per pair
    settled,     \* per pair: a sell confirmed approve(MaxUint256) and the
                 \* allowance has not been below MaxUint256 / 2 since
    laterApprovals, \* approve transactions submitted for a pair while settled
    sell         \* the running executeSell: its pair and its position

liqVars == <<pools, lpc, feeIdx, pair, calls, result>>

tradeVars == <<params, chain, tpc, amountIn, quoted, amountOutMin, gasLimit,
               tlog, swapTx, error>>

panelVars == <<props, mode, amount, slippage, isExecuting, hpc, toasts,
               outcome, completed, requests, inFlight, earlierSwaps>>

priceVars == <<now, cache, ecalls, reads, tcall>>

keyVars == <<kpc, privateKey, password, blob, attempt, decrypted>>

walletVars == <<storage, walletState, formMode, submit, refreshes, cleared>>

providerVars == <<jsonProvider, created, handed, signer, sent, lastRead>>

formatVars == <<usdValue, usdText>>

tokenRefVars == <<tokenState, fetchCall>>

tokenInfoVars == <<tokenInfoCache, lookups, firstInfo>>

facadeVars == <<facade, fetches, latest>>

shapeVars == <<routeProps, tradeParams, swapCall>>

approvalVars == <<allowances, approvals, settled, laterApprovals, sell>>

vars == <<pools, lpc, feeIdx, pair, calls, result,
          params, chain, tpc, amountIn, quoted, amountOutMin, gasLimit,
          tlog, swapTx, error,
          props, mode, amount, slippage, isExecuting, hpc, toasts,
          outcome, completed, requests, inFlight, earlierSwaps,
          now, cache, ecalls, reads, tcall,
          kpc, privateKey, password, blob, attempt, decrypted,
          storage, walletState, formMode, submit, refreshes, cleared,
          jsonProvider, created, handed, signer, sent, lastRead,
          usdValue, usdText,
          tokenState, fetchCall,
          tokenInfoCache, lookups, firstInfo,
          facade, fetches, latest,
          routeProps, tradeParams, swapCall,
          allowances, approvals, settled, laterApprovals, sell>>

(***************************************************************************)
(* Bounds                                                                  *)
(***************************************************************************)
\* largest WETH balance a pool holds in the model
MaxWeth == 1

\* slippage percentages 1..MaxSlippage are tried
MaxSlippage == 50

\* quotes 0..MaxQuote (and 1,000,000) are tried
MaxQuote == 3

\* trade amounts 1..MaxAmount (whole ether / whole tokens) are tried
MaxAmount == 2

\* token decimals 0..MaxDecimals are tried
MaxDecimals == 1

\* native balances 0..MaxBalance are read
MaxBalance == 1

\* refreshBalance calls that await their reads at the same time
MaxRefreshes == 2

\* dollar values up to MaxMillions million (and a half) are formatted
MaxMillions == 2

\* token balances and token prices 0..MaxTokenValue are read
MaxTokenValue == 1

\* getTokenInfo calls made
MaxLookups == 3

\* fetchAll calls made on one mounted hook
MaxFetches == 3

\* approve transactions submitted per (token, router) pair
MaxApprovals == 2

\* Width of uint256 in the model (256 in the program; the model checker's
\* integers are 32 bits wide and nothing here depends on the width).
UintBits == 8

\* Decimals of ether in the model (18 in the program, for the same reason).
EtherDecimals == 7

\* trade requests one panel makes in a run
MaxRequests == 2

\* fetchEthPrice calls made in a run
MaxCalls == 3

\* largest answer of the price feed
MaxAnswer == 1

\* largest pool reserve
MaxReserve == 2

\* longest password
MaxPwLen == 2

(***************************************************************************)
(* Liquidity resolver                                                       *)
(***************************************************************************)
ZERO == "0x0000000000000000000000000000000000000000"

UNISWAP_V2_ROUTER == "0x4752ba5DBc23f44D87826276BF6Fd6b1C372aD24"
AERODROME_ROUTER  == "0xcF77a3Ba9A5CA399B7c97c74d54e5b1Beb874E43"
UNISWAP_V3_ROUTER == "0x2626664c2603336E57B271c5C0b26F421741e481"

\* const feeTiers = [3000, 10000, 500]
feeTiers == <<3000, 10000, 500>>

\* The probe slots in the order of the source text: the V2 block, the
\* Aerodrome block, then one slot per element of feeTiers.
Slots == <<"v2", "aero", "v3_3000", "v3_10000", "v3_500">>

SlotSet == {Slots[i] : i \in 1..Len(Slots)}

V3Slot(i) == Slots[2 + i]

\* Address a factory answers for a slot whose pool exists (any non-zero
\* address, distinct per pool).
PoolAddress(s) == "pool_" \o s

\* What the chain answers for one slot:
\*   factory: "fail" (the getPair/getPool call throws), "none" (returns the
\*            zero address), "pool" (returns PoolAddress)
\*   weth:    the WETH balance of the pool
\*   balanceOfFails: the weth.balanceOf(pool) call throws
PoolStates ==
    {[factory |-> f, weth |-> 0, balanceOfFails |-> FALSE] : f \in {"fail", "none"}}
    \cup {[factory |-> "pool", weth |-> w, balanceOfFails |-> b] :
              w \in 0..MaxWeth, b \in BOOLEAN}

\* Result of `await factory.getPair(token, WETH)` / getPool(token, WETH, fee)
FactoryAnswer(s) ==
    IF pools[s].factory = "pool" THEN PoolAddress(s) ELSE ZERO

NoneResult ==
    [dex |-> "None", router |-> "", pairAddress |-> "", hasLiquidity |-> FALSE]

Pending == [dex |-> "pending"]

\* catch { /* continue */ } of the V2 block: control falls to the next block
V2OnError == "aero_getPair"

\* catch { /* continue */ } of the Aerodrome block
AeroOnError == "v3_getPool"

\* if (wethBalance > 0n)
HasWeth(wethBalance) == wethBalance > 0

\* No quote obtained (yet).
NoQuote == [got |-> FALSE, out |-> 0]

\* No swap transaction handed to a router (yet).
NoTx ==
    [method |-> "none", amountIn |-> 0, amountOutMin |-> 0, value |-> 0,
     gasLimit |-> 0]

\* The trade executor at rest (no executeBuy / executeSell running).
TradeIdle ==
    /\ params = [dir |-> "buy", dex |-> "Uniswap V2", slippage |-> 1, amount |-> 1]
    /\ chain = [quote |-> [ok |-> TRUE, out |-> 0, marker |-> FALSE],
                gas |-> [ok |-> FALSE, estimated |-> 0]]
    /\ tpc = "idle"
    /\ amountIn = 0
    /\ quoted = NoQuote
    /\ amountOutMin = 0
    /\ gasLimit = 0
    /\ tlog = <<>>
    /\ swapTx = NoTx
    /\ error = ""

\* The text of a number input: nothing, or a decimal number held in tenths.
EmptyText == [empty |-> TRUE, tenths |-> 0]

Text(n) == [empty |-> FALSE, tenths |-> n]

\* useState("15")
DefaultSlippage == Text(150)

\* liquidity = null: no route resolved
NullLiquidity == [present |-> FALSE, dex |-> "None", hasLiquidity |-> FALSE]

\* The trade panel at rest with nothing to trade (no handleTrade running).
PanelIdle ==
    /\ props = [wallet |-> FALSE, tokenInfo |-> FALSE, liquidity |-> NullLiquidity]
    /\ mode = "buy"
    /\ amount = EmptyText
    /\ slippage = DefaultSlippage
    /\ isExecuting = FALSE
    /\ hpc = "idle"
    /\ toasts = <<>>
    /\ outcome = "none"
    /\ completed = 0
    /\ requests = 0
    /\ inFlight = 0
    /\ earlierSwaps = 0

\* const CACHE_TTL = 30_000
CACHE_TTL == 30000

CallIds == 1..MaxCalls

\* _ethPriceCache = null
NoCache == [set |-> FALSE, price |-> [num |-> 0, den |-> 1], timestamp |-> 0]

\* A fetchEthPrice call that has not been made.
NotMade == [pc |-> "notMade", madeAt |-> 0, readsSeen |-> 0, read |-> FALSE,
            failed |-> FALSE, answer |-> 0, value |-> [num |-> 0, den |-> 1]]

\* fetchTokenPriceUsd not called.
TokenNotMade == [pc |-> "notMade", pair |-> "", eth |-> 0, poolReads |-> 0,
                 failed |-> FALSE, tokenReserve |-> 0, wethReserve |-> 0,
                 value |-> [num |-> 0, den |-> 1]]

\* The price oracle at rest: nothing cached, no call made.
PriceIdle ==
    /\ now = 0
    /\ cache = NoCache
    /\ ecalls = [c \in CallIds |-> NotMade]
    /\ reads = <<>>
    /\ tcall = TokenNotMade

\* /^0x[0-9a-fA-F]{64}$/
HexDigits == 64

\* block of SHA-256 in bytes
Sha256Block == 64

\* authentication tag of AES-GCM in bytes
TagBytes == 16

\* The key store at rest: nothing encrypted.
KeysIdle ==
    /\ kpc = "idle"
    /\ privateKey = <<>>
    /\ password = <<>>
    /\ blob = <<>>
    /\ attempt = <<>>
    /\ decrypted = [ok |-> FALSE, key |-> <<>>]

\* const STORAGE_KEY
STORAGE_KEY == "plt_encrypted_wallet"

NoWallet == [privateKey |-> <<>>]

NoAddress == [of |-> <<>>]

\* balance: "0.0000"
ResetBalance == [reset |-> TRUE, wei |-> 0]

\* The state useWallet starts from (shortAddress and balanceUsd are
\* functions of address, balance and ethPrice and are left out).
InitialWalletState(stored) ==
    [wallet |-> NoWallet, address |-> NoAddress, balance |-> ResetBalance,
     ethPrice |-> 0, isConnected |-> FALSE, isLoading |-> FALSE,
     hasStored |-> stored]

\* No connect or unlock call awaited.
NoSubmit == [kind |-> "none", pc |-> "idle", key |-> <<>>, pw |-> <<>>,
             wallet |-> NoWallet, encrypted |-> <<>>, failure |-> ""]

\* The wallet session at rest: nothing stored, nothing connected.
WalletIdle ==
    /\ storage = {}
    /\ walletState = InitialWalletState(FALSE)
    /\ formMode = "new"
    /\ submit = NoSubmit
    /\ refreshes = <<>>
    /\ cleared = FALSE

\* const BASE_RPC_URLS: ALCHEMY_RPC first
ALCHEMY_RPC == "https://base-mainnet.g.alchemy.com/v2/"

BASE_RPC_URLS == <<ALCHEMY_RPC, "https://mainnet.base.org", "https://base.llamarpc.com">>

\* null, for a handle
NoHandle == [kind |-> "null", url |-> "", id |-> 0]

NoSigner == [present |-> FALSE, provider |-> NoHandle]

NoRead == [fn |-> "none", status |-> <<>>, asked |-> <<>>, answered |-> FALSE]

\* The module at load: no handle constructed, no wallet, nothing read.
ProviderIdle ==
    /\ jsonProvider = NoHandle
    /\ created = 0
    /\ handed = {}
    /\ signer = NoSigner
    /\ sent = {}
    /\ lastRead = NoRead

\* A dollar value: whole dollars and thousandths of a dollar.
Usd(whole, milli) == [whole |-> whole, milli |-> milli]

\* formatUsd not called.
Unformatted == [prefix |-> "", hundredths |-> 0, suffix |-> ""]

FormatIdle ==
    /\ usdValue = Usd(0, 0)
    /\ usdText = Unformatted

\* tokenInfo: null
NoTokenInfo == [present |-> FALSE, address |-> <<>>]

\* The state useTokenInfo starts from and reset() returns to
\* (tokenBalanceUsd is a function of balance and price and is left out).
InitialTokenState ==
    [tokenInfo |-> NoTokenInfo, tokenBalance |-> 0, tokenPriceUsd |-> 0,
     liquidity |-> NullLiquidity, isLoading |-> FALSE, error |-> ""]

\* fetchAll not called.
NoFetchCall == [pc |-> "idle", input |-> <<>>, address |-> <<>>, started |-> {}]

TokenRefIdle ==
    /\ tokenState = InitialTokenState
    /\ fetchCall = NoFetchCall

\* let decimals = 18
DefaultDecimals == 18

\* what decimals() of the token contract of the model answers
TokenDecimals == 6

LookupIds == 1..MaxLookups

NoInfo == [address |-> <<>>, name |-> "", symbol |-> "", decimals |-> 0]

\* A getTokenInfo call that has not been made; name, symbol and decimals are
\* its locals with their initial values, unread the fields whose reads have
\* all failed.
LookupNotMade ==
    [pc |-> "notMade", checksummed |-> <<>>, late |-> FALSE, hit |-> FALSE,
     name |-> "Unknown", symbol |-> "???", decimals |-> DefaultDecimals,
     unread |-> {}, info |-> NoInfo]

\* No descriptor cached, no lookup made.
TokenInfoIdle ==
    /\ tokenInfoCache = {}
    /\ lookups = [c \in LookupIds |-> LookupNotMade]
    /\ firstInfo = [set |-> FALSE, info |-> NoInfo]

FetchIds == 1..MaxFetches

\* What one fetchAll awaited: nothing yet.
NoFetched ==
    [info |-> NoTokenInfo, liquidity |-> NullLiquidity, balance |-> 0,
     price |-> 0]

\* A fetchAll call that has not been made.
FetchNotCalled ==
    [pc |-> "notCalled", address |-> <<>>, ended |-> "", fetched |-> NoFetched]

\* No request issued.
NoRequest == [kind |-> "none", id |-> 0]

FacadeIdle ==
    /\ facade = InitialTokenState
    /\ fetches = [c \in FetchIds |-> FetchNotCalled]
    /\ latest = NoRequest

\* An optional field of a LiquidityResult or of TradeParams: left out, or given.
Absent == [given |-> FALSE, value |-> 0]

\* An optional flag left out.
AbsentFlag == [given |-> FALSE, value |-> FALSE]

Given(v) == [given |-> TRUE, value |-> v]

\* handleTrade has built no TradeParams.
NoParams == [built |-> FALSE]

\* No swap call made.
NoCall == [made |-> FALSE]

\* The panel before a token is resolved.
ShapeIdle ==
    /\ routeProps = [mode |-> "buy", tokenAddress |-> "", liquidity |-> NullLiquidity]
    /\ tradeParams = NoParams
    /\ swapCall = NoCall

\* The (token, router) pairs sold through.
ApprovalPairs ==
    {[token |-> "0xTokenA", router |-> UNISWAP_V2_ROUTER],
     [token |-> "0xTokenA", router |-> AERODROME_ROUTER],
     [token |-> "0xTokenB", router |-> UNISWAP_V2_ROUTER]}

\* No executeSell running.
NoSell == [pc |-> "idle", pair |-> [token |-> "", router |-> ""], late |-> FALSE]

\* Nothing approved, no sell running.
ApprovalIdle ==
    /\ allowances = [p \in ApprovalPairs |-> 0]
    /\ approvals = [p \in ApprovalPairs |-> 0]
    /\ settled = [p \in ApprovalPairs |-> FALSE]
    /\ laterApprovals = [p \in ApprovalPairs |-> 0]
    /\ sell = NoSell

LiqInit ==
    /\ pools \in [SlotSet -> PoolStates]
    /\ lpc = "v2_getPair"
    /\ feeIdx = 1
    /\ pair = ZERO
    /\ calls = <<>>
    /\ result = Pending
    /\ TradeIdle
    /\ PanelIdle
    /\ PriceIdle
    /\ KeysIdle
    /\ WalletIdle
    /\ ProviderIdle
    /\ FormatIdle
    /\ TokenRefIdle
    /\ TokenInfoIdle
    /\ FacadeIdle
    /\ ShapeIdle
    /\ ApprovalIdle

\* const pair = await v2Factory.getPair(tokenAddress, WETH_BASE); if (pair !== ZERO)
V2GetPair ==
    /\ lpc = "v2_getPair"
    /\ calls' = Append(calls, [call |-> "getPair", slot |-> "v2"])
    /\ IF pools["v2"].factory = "fail"
         THEN /\ lpc' = V2OnError
              /\ pair' = ZERO
         ELSE /\ pair' = FactoryAnswer("v2")
              /\ lpc' = IF pair' # ZERO THEN "v2_balanceOf" ELSE "aero_getPair"
    /\ UNCHANGED <<pools, feeIdx, result>>
    /\ UNCHANGED tradeVars
    /\ UNCHANGED panelVars
    /\ UNCHANGED priceVars
    /\ UNCHANGED keyVars
    /\ UNCHANGED walletVars
    /\ UNCHANGED providerVars
    /\ UNCHANGED formatVars
    /\ UNCHANGED tokenRefVars
    /\ UNCHANGED tokenInfoVars
    /\ UNCHANGED facadeVars
    /\ UNCHANGED shapeVars
    /\ UNCHANGED approvalVars

\* const wethBalance = await weth.balanceOf(pair); if (wethBalance > 0n) return {...}
V2BalanceOf ==
    /\ lpc = "v2_balanceOf"
    /\ calls' = Append(calls, [call |-> "balanceOf", slot |-> "v2"])
    /\ IF pools["v2"].balanceOfFails
         THEN /\ lpc' = V2OnError
              /\ UNCHANGED result
         ELSE IF HasWeth(pools["v2"].weth)
           THEN /\ result' = [dex |-> "Uniswap V2", router |-> UNISWAP_V2_ROUTER,
                              pairAddress |-> pair, hasLiquidity |-> TRUE]
                /\ lpc' = "done"
           ELSE /\ lpc' = "aero_getPair"
                /\ UNCHANGED result
    /\ UNCHANGED <<pools, feeIdx, pair>>
    /\ UNCHANGED tradeVars
    /\ UNCHANGED panelVars
    /\ UNCHANGED priceVars
    /\ UNCHANGED keyVars
    /\ UNCHANGED walletVars
    /\ UNCHANGED providerVars
    /\ UNCHANGED formatVars
    /\ UNCHANGED tokenRefVars
    /\ UNCHANGED tokenInfoVars
    /\ UNCHANGED facadeVars
    /\ UNCHANGED shapeVars
    /\ UNCHANGED approvalVars

\* const pair = await aeroFactory.getPair(tokenAddress, WETH_BASE); if (pair !== ZERO)
AeroGetPair ==
    /\ lpc = "aero_getPair"
    /\ calls' = Append(calls, [call |-> "getPair", slot |-> "aero"])
    /\ IF pools["aero"].factory = "fail"
         THEN /\ lpc' = AeroOnError
              /\ pair' = ZERO
         ELSE /\ pair' = FactoryAnswer("aero")
              /\ lpc' = IF pair' # ZERO THEN "aero_balanceOf" ELSE "v3_getPool"
    /\ UNCHANGED <<pools, feeIdx, result>>
    /\ UNCHANGED tradeVars
    /\ UNCHANGED panelVars
    /\ UNCHANGED priceVars
    /\ UNCHANGED keyVars
    /\ UNCHANGED walletVars
    /\ UNCHANGED providerVars
    /\ UNCHANGED formatVars
    /\ UNCHANGED tokenRefVars
    /\ UNCHANGED tokenInfoVars
    /\ UNCHANGED facadeVars
    /\ UNCHANGED shapeVars
    /\ UNCHANGED approvalVars

\* const wethBalance = await weth.balanceOf(pair); if (wethBalance > 0n) return {...}
AeroBalanceOf ==
    /\ lpc = "aero_balanceOf"
    /\ calls' = Append(calls, [call |-> "balanceOf", slot |-> "aero"])
    /\ IF pools["aero"].balanceOfFails
         THEN /\ lpc' = AeroOnError
              /\ UNCHANGED result
         ELSE IF HasWeth(pools["aero"].weth)
           THEN /\ result' = [dex |-> "Aerodrome", router |-> AERODROME_ROUTER,
                              pairAddress |-> pair, hasLiquidity |-> TRUE]
                /\ lpc' = "done"
           ELSE /\ lpc' = "v3_getPool"
                /\ UNCHANGED result
    /\ UNCHANGED <<pools, feeIdx, pair>>
    /\ UNCHANGED tradeVars
    /\ UNCHANGED panelVars
    /\ UNCHANGED priceVars
    /\ UNCHANGED keyVars
    /\ UNCHANGED walletVars
    /\ UNCHANGED providerVars
    /\ UNCHANGED formatVars
    /\ UNCHANGED tokenRefVars
    /\ UNCHANGED tokenInfoVars
    /\ UNCHANGED facadeVars
    /\ UNCHANGED shapeVars
    /\ UNCHANGED approvalVars

\* for (const fee of feeTiers) { try { const pool = await v3Factory.getPool(...);
\*   if (pool !== ZERO) return {..., fee} } catch { /* continue */ } }
V3GetPool ==
    /\ lpc = "v3_getPool"
    /\ feeIdx <= Len(feeTiers)
    /\ calls' = Append(calls, [call |-> "getPool", slot |-> V3Slot(feeIdx)])
    /\ IF pools[V3Slot(feeIdx)].factory # "fail" /\ FactoryAnswer(V3Slot(feeIdx)) # ZERO
         THEN /\ result' = [dex |-> "Uniswap V3", router |-> UNISWAP_V3_ROUTER,
                            pairAddress |-> FactoryAnswer(V3Slot(feeIdx)),
                            hasLiquidity |-> TRUE, fee |-> feeTiers[feeIdx]]
              /\ lpc' = "done"
              /\ UNCHANGED feeIdx
         ELSE /\ feeIdx' = feeIdx + 1
              /\ UNCHANGED <<lpc, result>>
    /\ UNCHANGED <<pools, pair>>
    /\ UNCHANGED tradeVars
    /\ UNCHANGED panelVars
    /\ UNCHANGED priceVars
    /\ UNCHANGED keyVars
    /\ UNCHANGED walletVars
    /\ UNCHANGED providerVars
    /\ UNCHANGED formatVars
    /\ UNCHANGED tokenRefVars
    /\ UNCHANGED tokenInfoVars
    /\ UNCHANGED facadeVars
    /\ UNCHANGED shapeVars
    /\ UNCHANGED approvalVars

\* return { dex: "None", router: "", pairAddress: "", hasLiquidity: false }
ReturnNone ==
    /\ lpc = "v3_getPool"
    /\ feeIdx > Len(feeTiers)
    /\ result' = NoneResult
    /\ lpc' = "done"
    /\ UNCHANGED <<pools, feeIdx, pair, calls>>
    /\ UNCHANGED tradeVars
    /\ UNCHANGED panelVars
    /\ UNCHANGED priceVars
    /\ UNCHANGED keyVars
    /\ UNCHANGED walletVars
    /\ UNCHANGED providerVars
    /\ UNCHANGED formatVars
    /\ UNCHANGED tokenRefVars
    /\ UNCHANGED tokenInfoVars
    /\ UNCHANGED facadeVars
    /\ UNCHANGED shapeVars
    /\ UNCHANGED approvalVars

checkLiquidityFast ==
    \/ V2GetPair
    \/ V2BalanceOf
    \/ AeroGetPair
    \/ AeroBalanceOf
    \/ V3GetPool
    \/ ReturnNone

(***************************************************************************)
(* Trade executor                                                           *)
(***************************************************************************)
Dexes == {"Uniswap V2", "Aerodrome", "Uniswap V3"}

Slippages == 1..MaxSlippage

\* ethers.MaxUint256
MaxUint256 == 2^UintBits - 1

\* ethers.parseUnits(amount, decimals) of a whole-number amount
parseUnits(value, decimals) == value * 10^decimals

\* ethers.parseEther(amount)
parseEther(value) == parseUnits(value, EtherDecimals)

\* const minGasNeeded = ethers.parseUnits("0.000001", "ether")
minGasNeeded == 10^(EtherDecimals - 6)

\* Answers of routerContract.getAmountsOut: amounts[1], or a failure whose
\* message does (marker) or does not contain the text the catch block looks for.
QuoteOutcomes ==
    {[ok |-> TRUE, out |-> q, marker |-> FALSE] : q \in (0..MaxQuote) \cup {1000000}}
    \cup {[ok |-> FALSE, out |-> 0, marker |-> m] : m \in BOOLEAN}

\* Answers of contract[method].estimateGas: the simulated gas units, or a failure.
GasOutcomes ==
    {[ok |-> TRUE, estimated |-> g] : g \in {1, 123457}}
    \cup {[ok |-> FALSE, estimated |-> 0]}

\* Native balances provider.getBalance may answer.
EthBalances == {0, minGasNeeded - 1, minGasNeeded}

\* Token balances tokenContract.balanceOf may answer.
TokenBalances == {0, 1, 15, 30}

\* Allowances contract.allowance may answer.
Allowances == {0, MaxUint256 \div 2 - 1, MaxUint256 \div 2, MaxUint256}

\* A log entry: the call, the value involved (the allowance or native
\* balance answered, the amount approved; 0 where the value is not recorded)
\* and whether the call succeeded.
Entry(name, arg, ok) == [call |-> name, arg |-> arg, ok |-> ok]

\* Mutant of estimateGasWithBuffer: divides before it multiplies.
estimateGasWithBuffer_DivFirst(sim) ==
    IF sim.ok THEN (sim.estimated \div 100) * 130 ELSE 300000

\* estimateGasWithBuffer: (estimated * 130n) / 100n, or 300000n when the
\* simulation throws
estimateGasWithBuffer(sim) ==
    IF sim.ok THEN (sim.estimated * 130) \div 100 ELSE 300000

\* Division of bigints truncates toward zero.
BigIntDiv(a, b) == IF a >= 0 THEN a \div b ELSE -((-a) \div b)

\* Mutant of AmountOutMin: divides before it multiplies.
AmountOutMin_DivFirst(expected, pct) == (expected \div 100) * (100 - pct)

\* (amounts[1] * BigInt(100 - slippage)) / 100n, pct being params.slippage
AmountOutMin(expected, pct) == BigIntDiv(expected * (100 - pct), 100)

NeedsApproval_BelowMax(allowance) == allowance < MaxUint256

\* Mutant of NeedsApproval: <= instead of <.
NeedsApproval_OffByOne(allowance) == allowance <= MaxUint256 \div 2

\* if (allowance < ethers.MaxUint256 / 2n)
NeedsApproval(allowance) == allowance < MaxUint256 \div 2

\* Mutant of ClampToBalance: the clamp is left out.
ClampToBalance_NoClamp(amountInUnits, actualBalance) == amountInUnits

\* if (amountInUnits > actualBalance) amountInUnits = actualBalance
ClampToBalance(amountInUnits, actualBalance) ==
    IF amountInUnits > actualBalance THEN actualBalance ELSE amountInUnits

\* if (ethBalance < minGasNeeded) throw
BelowGasReserve(ethBalance) == ethBalance < minGasNeeded

\* The branch taken on params.dex: the V3 branch goes straight to the gas
\* estimate, the Aerodrome and V2 branches quote first.
\* The minimum-output argument each branch passes: amountOutMinimum: 0 in the
\* V3 branch, the local amountOutMin in the others.
SwapMinOut(dex) == IF dex = "Uniswap V3" THEN 0 ELSE amountOutMin

\* Whether the swap arguments encode: a uint256 argument takes no negative
\* value, so a call with a negative minimum output fails before it is sent.
ArgsEncode(dex) == SwapMinOut(dex) >= 0

\* What contract[method].estimateGas(...args) answers for the swap arguments.
Simulated(dex) == IF ArgsEncode(dex) THEN chain.gas ELSE [ok |-> FALSE, estimated |-> 0]

\* How the swap call may end.
SendOutcomes(dex) == IF ArgsEncode(dex) THEN BOOLEAN ELSE {FALSE}

\* Mutant of Broadcasts: a failed swap call is issued a second time.
Broadcasts_Resend(ok) == <<Entry("swap", 0, FALSE), Entry("swap", 0, ok)>>

\* The swap calls one run of the function issues: await routerContract.<swap>(...)
Broadcasts(ok) == <<Entry("swap", 0, ok)>>

RouteEntry(dex) == IF dex = "Uniswap V3" THEN "estimateGas" ELSE "getAmountsOut"

\* Where executeSell continues once the token amount is known.
AfterSellAmount == "allowance"

\* Where executeSell continues once the approval is settled.
AfterApproval == "getBalance"

\* The router method each branch calls.
SwapMethod(dir, dex) ==
    IF dex = "Uniswap V3" THEN "exactInputSingle"
    ELSE IF dir = "buy" THEN "swapExactETHForTokensSupportingFeeOnTransferTokens"
    ELSE "swapExactTokensForETHSupportingFeeOnTransferTokens"

\* The ether sent with the swap: {value: amountInWei} in executeBuy, none in
\* executeSell.
SwapValue(dir) == IF dir = "buy" THEN amountIn ELSE 0

SimulatedCall_NoValue(dir, dex) ==
    [method |-> SwapMethod(dir, dex), amountIn |-> amountIn,
     amountOutMin |-> SwapMinOut(dex), value |-> 0]

\* estimateGasWithBuffer(routerContract, method, args, overrides): the method,
\* the arguments and the value contract[method].estimateGas is called with
SimulatedCall(dir, dex) ==
    [method |-> SwapMethod(dir, dex), amountIn |-> amountIn,
     amountOutMin |-> SwapMinOut(dex), value |-> SwapValue(dir)]

\* The log entry of the gas simulation: it records the call simulated.
Simulation(dir, dex, ok) ==
    [call |-> "estimateGas", arg |-> 0, ok |-> ok,
     simulated |-> SimulatedCall(dir, dex)]

Throw(msg) == tpc' = "threw" /\ error' = msg

\* The liquidity resolver at rest (no checkLiquidityFast running).
LiqIdle ==
    /\ pools = [s \in SlotSet |-> [factory |-> "none", weth |-> 0, balanceOfFails |-> FALSE]]
    /\ lpc = "idle"
    /\ feeIdx = 1
    /\ pair = ZERO
    /\ calls = <<>>
    /\ result = Pending

\* Entry of executeBuy / executeSell with its TradeParams.
TradeInit ==
    /\ params \in [dir : {"buy", "sell"}, dex : Dexes, slippage : Slippages,
                   amount : 1..MaxAmount]
    /\ chain \in [quote : QuoteOutcomes, gas : GasOutcomes]
    /\ tpc = "getGasData"
    /\ amountIn = 0
    /\ quoted = NoQuote
    /\ amountOutMin = 0
    /\ gasLimit = 0
    /\ tlog = <<>>
    /\ swapTx = NoTx
    /\ error = ""
    /\ LiqIdle
    /\ PanelIdle
    /\ PriceIdle
    /\ KeysIdle
    /\ WalletIdle
    /\ ProviderIdle
    /\ FormatIdle
    /\ TokenRefIdle
    /\ TokenInfoIdle
    /\ FacadeIdle
    /\ ShapeIdle
    /\ ApprovalIdle

\* executeBuy: const gasData = await getGasData(); amountInWei = parseEther(amount)
BuyGetGasData ==
    /\ params.dir = "buy"
    /\ tpc = "getGasData"
    /\ \E ok \in BOOLEAN :
          /\ tlog' = Append(tlog, Entry("getFeeData", 0, ok))
          /\ IF ok
            THEN /\ amountIn' = parseEther(params.amount)
                 /\ tpc' = RouteEntry(params.dex)
                 /\ UNCHANGED error
            ELSE /\ Throw("getFeeData failed")
                 /\ UNCHANGED amountIn
    /\ UNCHANGED <<params, chain, quoted, amountOutMin, gasLimit, swapTx>>
    /\ UNCHANGED liqVars
    /\ UNCHANGED panelVars
    /\ UNCHANGED priceVars
    /\ UNCHANGED keyVars
    /\ UNCHANGED walletVars
    /\ UNCHANGED providerVars
    /\ UNCHANGED formatVars
    /\ UNCHANGED tokenRefVars
    /\ UNCHANGED tokenInfoVars
    /\ UNCHANGED facadeVars
    /\ UNCHANGED shapeVars
    /\ UNCHANGED approvalVars

\* executeBuy, Aerodrome and V2 branches: the try/catch around getAmountsOut
BuyGetAmountsOut ==
    /\ params.dir = "buy"
    /\ tpc = "getAmountsOut"
    /\ tlog' = Append(tlog, Entry("getAmountsOut", 0, chain.quote.ok))
    /\ IF chain.quote.ok
         THEN IF chain.quote.out = 0
                THEN /\ Throw("No liquidity available")
                     /\ UNCHANGED <<quoted, amountOutMin>>
                ELSE /\ quoted' = [got |-> TRUE, out |-> chain.quote.out]
                     /\ amountOutMin' = AmountOutMin(chain.quote.out, params.slippage)
                     /\ tpc' = "estimateGas"
                     /\ UNCHANGED error
         ELSE IF chain.quote.marker
                THEN /\ Throw("getAmountsOut failed: No liquidity")
                     /\ UNCHANGED <<quoted, amountOutMin>>
                ELSE /\ tpc' = "estimateGas"
                     /\ UNCHANGED <<quoted, amountOutMin, error>>
    /\ UNCHANGED <<params, chain, amountIn, gasLimit, swapTx>>
    /\ UNCHANGED liqVars
    /\ UNCHANGED panelVars
    /\ UNCHANGED priceVars
    /\ UNCHANGED keyVars
    /\ UNCHANGED walletVars
    /\ UNCHANGED providerVars
    /\ UNCHANGED formatVars
    /\ UNCHANGED tokenRefVars
    /\ UNCHANGED tokenInfoVars
    /\ UNCHANGED facadeVars
    /\ UNCHANGED shapeVars
    /\ UNCHANGED approvalVars

\* executeBuy: const gasLimit = await estimateGasWithBuffer(...)
BuyEstimateGas ==
    /\ params.dir = "buy"
    /\ tpc = "estimateGas"
    /\ tlog' = Append(tlog, Simulation("buy", params.dex, Simulated(params.dex).ok))
    /\ gasLimit' = estimateGasWithBuffer(Simulated(params.dex))
    /\ tpc' = "broadcast"
    /\ UNCHANGED <<params, chain, amountIn, quoted, amountOutMin, swapTx, error>>
    /\ UNCHANGED liqVars
    /\ UNCHANGED panelVars
    /\ UNCHANGED priceVars
    /\ UNCHANGED keyVars
    /\ UNCHANGED walletVars
    /\ UNCHANGED providerVars
    /\ UNCHANGED formatVars
    /\ UNCHANGED tokenRefVars
    /\ UNCHANGED tokenInfoVars
    /\ UNCHANGED facadeVars
    /\ UNCHANGED shapeVars
    /\ UNCHANGED approvalVars

\* executeBuy: const tx = await routerContract.<swap>(..., {value, gasLimit, ...})
BuyBroadcast ==
    /\ params.dir = "buy"
    /\ tpc = "broadcast"
    /\ swapTx' = [method |-> SwapMethod("buy", params.dex), amountIn |-> amountIn,
                  amountOutMin |-> SwapMinOut(params.dex),
                  value |-> SwapValue("buy"), gasLimit |-> gasLimit]
    /\ \E ok \in SendOutcomes(params.dex) :
          /\ tlog' = tlog \o Broadcasts(ok)
          /\ IF ok THEN tpc' = "returned" /\ UNCHANGED error
                   ELSE Throw("swap failed")
    /\ UNCHANGED <<params, chain, amountIn, quoted, amountOutMin, gasLimit>>
    /\ UNCHANGED liqVars
    /\ UNCHANGED panelVars
    /\ UNCHANGED priceVars
    /\ UNCHANGED keyVars
    /\ UNCHANGED walletVars
    /\ UNCHANGED providerVars
    /\ UNCHANGED formatVars
    /\ UNCHANGED tokenRefVars
    /\ UNCHANGED tokenInfoVars
    /\ UNCHANGED facadeVars
    /\ UNCHANGED shapeVars
    /\ UNCHANGED approvalVars

executeBuy ==
    \/ BuyGetGasData
    \/ BuyGetAmountsOut
    \/ BuyEstimateGas
    \/ BuyBroadcast

\* executeSell: const gasData = await getGasData()
SellGetGasData ==
    /\ params.dir = "sell"
    /\ tpc = "getGasData"
    /\ \E ok \in BOOLEAN :
          /\ tlog' = Append(tlog, Entry("getFeeData", 0, ok))
          /\ IF ok THEN tpc' = "readToken" /\ UNCHANGED error
                   ELSE Throw("getFeeData failed")
    /\ UNCHANGED <<params, chain, amountIn, quoted, amountOutMin, gasLimit, swapTx>>
    /\ UNCHANGED liqVars
    /\ UNCHANGED panelVars
    /\ UNCHANGED priceVars
    /\ UNCHANGED keyVars
    /\ UNCHANGED walletVars
    /\ UNCHANGED providerVars
    /\ UNCHANGED formatVars
    /\ UNCHANGED tokenRefVars
    /\ UNCHANGED tokenInfoVars
    /\ UNCHANGED facadeVars
    /\ UNCHANGED shapeVars
    /\ UNCHANGED approvalVars

\* executeSell: Promise.all([decimals(), balanceOf(wallet)]); parseUnits; the
\* clamp to actualBalance; throw when the amount is zero
SellReadToken ==
    /\ params.dir = "sell"
    /\ tpc = "readToken"
    /\ \E ok \in BOOLEAN, decimals \in 0..MaxDecimals, actualBalance \in TokenBalances :
          /\ tlog' = tlog \o <<Entry("decimals", IF ok THEN decimals ELSE 0, ok),
                                Entry("balanceOf", IF ok THEN actualBalance ELSE 0, ok)>>
          /\ IF ~ok
            THEN /\ Throw("token read failed")
                 /\ UNCHANGED amountIn
            ELSE LET parsed == parseUnits(params.amount, decimals)
                     amountInUnits == ClampToBalance(parsed, actualBalance)
                 IN  /\ amountIn' = amountInUnits
                     /\ IF amountInUnits = 0
                          THEN Throw("No token balance to sell")
                          ELSE tpc' = AfterSellAmount /\ UNCHANGED error
    /\ UNCHANGED <<params, chain, quoted, amountOutMin, gasLimit, swapTx>>
    /\ UNCHANGED liqVars
    /\ UNCHANGED panelVars
    /\ UNCHANGED priceVars
    /\ UNCHANGED keyVars
    /\ UNCHANGED walletVars
    /\ UNCHANGED providerVars
    /\ UNCHANGED formatVars
    /\ UNCHANGED tokenRefVars
    /\ UNCHANGED tokenInfoVars
    /\ UNCHANGED facadeVars
    /\ UNCHANGED shapeVars
    /\ UNCHANGED approvalVars

\* ensureApproval: const allowance = await contract.allowance(...);
\* if (allowance < MaxUint256 / 2n) ... else return null
EnsureApprovalAllowance ==
    /\ tpc = "allowance"
    /\ \E ok \in BOOLEAN, allowance \in Allowances :
          /\ tlog' = Append(tlog, Entry("allowance", IF ok THEN allowance ELSE 0, ok))
          /\ IF ~ok
               THEN Throw("allowance failed")
               ELSE /\ tpc' = IF NeedsApproval(allowance) THEN "approve"
                                                          ELSE AfterApproval
                    /\ UNCHANGED error
    /\ UNCHANGED <<params, chain, amountIn, quoted, amountOutMin, gasLimit, swapTx>>
    /\ UNCHANGED liqVars
    /\ UNCHANGED panelVars
    /\ UNCHANGED priceVars
    /\ UNCHANGED keyVars
    /\ UNCHANGED walletVars
    /\ UNCHANGED providerVars
    /\ UNCHANGED formatVars
    /\ UNCHANGED tokenRefVars
    /\ UNCHANGED tokenInfoVars
    /\ UNCHANGED facadeVars
    /\ UNCHANGED shapeVars
    /\ UNCHANGED approvalVars

\* ensureApproval: const tx = await contract.approve(spender, MaxUint256); return tx
EnsureApprovalApprove ==
    /\ tpc = "approve"
    /\ \E ok \in BOOLEAN :
          /\ tlog' = Append(tlog, Entry("approve", MaxUint256, ok))
          /\ IF ok THEN tpc' = "approvalWait" /\ UNCHANGED error
                   ELSE Throw("approve failed")
    /\ UNCHANGED <<params, chain, amountIn, quoted, amountOutMin, gasLimit, swapTx>>
    /\ UNCHANGED liqVars
    /\ UNCHANGED panelVars
    /\ UNCHANGED priceVars
    /\ UNCHANGED keyVars
    /\ UNCHANGED walletVars
    /\ UNCHANGED providerVars
    /\ UNCHANGED formatVars
    /\ UNCHANGED tokenRefVars
    /\ UNCHANGED tokenInfoVars
    /\ UNCHANGED facadeVars
    /\ UNCHANGED shapeVars
    /\ UNCHANGED approvalVars

\* executeSell: if (approvalTx) await approvalTx.wait()
SellApprovalWait ==
    /\ tpc = "approvalWait"
    /\ \E ok \in BOOLEAN :
          /\ tlog' = Append(tlog, Entry("approve.wait", 0, ok))
          /\ IF ok THEN tpc' = AfterApproval /\ UNCHANGED error
                   ELSE Throw("approval reverted")
    /\ UNCHANGED <<params, chain, amountIn, quoted, amountOutMin, gasLimit, swapTx>>
    /\ UNCHANGED liqVars
    /\ UNCHANGED panelVars
    /\ UNCHANGED priceVars
    /\ UNCHANGED keyVars
    /\ UNCHANGED walletVars
    /\ UNCHANGED providerVars
    /\ UNCHANGED formatVars
    /\ UNCHANGED tokenRefVars
    /\ UNCHANGED tokenInfoVars
    /\ UNCHANGED facadeVars
    /\ UNCHANGED shapeVars
    /\ UNCHANGED approvalVars

\* executeSell: ethBalance = await provider.getBalance(wallet.address);
\* if (ethBalance < minGasNeeded) throw
SellGetBalance ==
    /\ tpc = "getBalance"
    /\ \E ok \in BOOLEAN, ethBalance \in EthBalances :
          /\ tlog' = Append(tlog, Entry("getBalance", IF ok THEN ethBalance ELSE 0, ok))
          /\ IF ~ok
               THEN Throw("getBalance failed")
               ELSE IF BelowGasReserve(ethBalance)
                 THEN Throw("Insufficient ETH for gas")
                 ELSE tpc' = RouteEntry(params.dex) /\ UNCHANGED error
    /\ UNCHANGED <<params, chain, amountIn, quoted, amountOutMin, gasLimit, swapTx>>
    /\ UNCHANGED liqVars
    /\ UNCHANGED panelVars
    /\ UNCHANGED priceVars
    /\ UNCHANGED keyVars
    /\ UNCHANGED walletVars
    /\ UNCHANGED providerVars
    /\ UNCHANGED formatVars
    /\ UNCHANGED tokenRefVars
    /\ UNCHANGED tokenInfoVars
    /\ UNCHANGED facadeVars
    /\ UNCHANGED shapeVars
    /\ UNCHANGED approvalVars

\* executeSell, Aerodrome and V2 branches: the try/catch around getAmountsOut
SellGetAmountsOut ==
    /\ params.dir = "sell"
    /\ tpc = "getAmountsOut"
    /\ tlog' = Append(tlog, Entry("getAmountsOut", 0, chain.quote.ok))
    /\ IF chain.quote.ok
         THEN IF chain.quote.out = 0
                THEN /\ Throw("Cannot sell: Zero liquidity")
                     /\ UNCHANGED <<quoted, amountOutMin>>
                ELSE /\ quoted' = [got |-> TRUE, out |-> chain.quote.out]
                     /\ amountOutMin' = AmountOutMin(chain.quote.out, params.slippage)
                     /\ tpc' = "estimateGas"
                     /\ UNCHANGED error
         ELSE IF chain.quote.marker
                THEN /\ Throw("getAmountsOut failed: Zero liquidity")
                     /\ UNCHANGED <<quoted, amountOutMin>>
                ELSE /\ tpc' = "estimateGas"
                     /\ UNCHANGED <<quoted, amountOutMin, error>>
    /\ UNCHANGED <<params, chain, amountIn, gasLimit, swapTx>>
    /\ UNCHANGED liqVars
    /\ UNCHANGED panelVars
    /\ UNCHANGED priceVars
    /\ UNCHANGED keyVars
    /\ UNCHANGED walletVars
    /\ UNCHANGED providerVars
    /\ UNCHANGED formatVars
    /\ UNCHANGED tokenRefVars
    /\ UNCHANGED tokenInfoVars
    /\ UNCHANGED facadeVars
    /\ UNCHANGED shapeVars
    /\ UNCHANGED approvalVars

\* executeSell: const gasLimit = await estimateGasWithBuffer(...)
SellEstimateGas ==
    /\ params.dir = "sell"
    /\ tpc = "estimateGas"
    /\ tlog' = Append(tlog, Simulation("sell", params.dex, Simulated(params.dex).ok))
    /\ gasLimit' = estimateGasWithBuffer(Simulated(params.dex))
    /\ tpc' = "broadcast"
    /\ UNCHANGED <<params, chain, amountIn, quoted, amountOutMin, swapTx, error>>
    /\ UNCHANGED liqVars
    /\ UNCHANGED panelVars
    /\ UNCHANGED priceVars
    /\ UNCHANGED keyVars
    /\ UNCHANGED walletVars
    /\ UNCHANGED providerVars
    /\ UNCHANGED formatVars
    /\ UNCHANGED tokenRefVars
    /\ UNCHANGED tokenInfoVars
    /\ UNCHANGED facadeVars
    /\ UNCHANGED shapeVars
    /\ UNCHANGED approvalVars

\* executeSell: const tx = await routerContract.<swap>(..., {gasLimit, ...})
SellBroadcast ==
    /\ params.dir = "sell"
    /\ tpc = "broadcast"
    /\ swapTx' = [method |-> SwapMethod("sell", params.dex), amountIn |-> amountIn,
                  amountOutMin |-> SwapMinOut(params.dex),
                  value |-> SwapValue("sell"), gasLimit |-> gasLimit]
    /\ \E ok \in SendOutcomes(params.dex) :
          /\ tlog' = tlog \o Broadcasts(ok)
          /\ IF ok THEN tpc' = "returned" /\ UNCHANGED error
                   ELSE Throw("swap failed")
    /\ UNCHANGED <<params, chain, amountIn, quoted, amountOutMin, gasLimit>>
    /\ UNCHANGED liqVars
    /\ UNCHANGED panelVars
    /\ UNCHANGED priceVars
    /\ UNCHANGED keyVars
    /\ UNCHANGED walletVars
    /\ UNCHANGED providerVars
    /\ UNCHANGED formatVars
    /\ UNCHANGED tokenRefVars
    /\ UNCHANGED tokenInfoVars
    /\ UNCHANGED facadeVars
    /\ UNCHANGED shapeVars
    /\ UNCHANGED approvalVars

ensureApproval ==
    \/ EnsureApprovalAllowance
    \/ EnsureApprovalApprove

executeSell ==
    \/ SellGetGasData
    \/ SellReadToken
    \/ ensureApproval
    \/ SellApprovalWait
    \/ SellGetBalance
    \/ SellGetAmountsOut
    \/ SellEstimateGas
    \/ SellBroadcast

(***************************************************************************)
(* TradePanel: canTrade, the Execute button and handleTrade                 *)
(***************************************************************************)
\* Values of the liquidity prop: null, the "None" result, or a route.
PanelLiquidity ==
    {NullLiquidity, [present |-> TRUE, dex |-> "None", hasLiquidity |-> FALSE]}
    \cup {[present |-> TRUE, dex |-> d, hasLiquidity |-> TRUE] : d \in Dexes}

\* Texts the amount input may hold: nothing, or a whole number.
AmountTexts == {EmptyText} \cup {Text(10 * n) : n \in (0..MaxAmount) \cup {-1}}

\* Texts the slippage input may hold: nothing, "0", "0.5", "1", "15", "100",
\* "100.5", "150".
SlippageTexts == {EmptyText} \cup {Text(n) : n \in {0, 5, 10, 150, 1000, 1005, 1500}}

\* parseFloat(text) > 0; parseFloat of the empty text is NaN and NaN > 0 is false
ParseFloatPositive(text) == ~text.empty /\ text.tenths > 0

\* parseInt(text) of a non-empty text: the digits before the decimal point
parseInt(text) == IF text.tenths >= 0 THEN text.tenths \div 10
                                       ELSE -((-text.tenths) \div 10)

canTrade ==
    /\ props.wallet
    /\ props.tokenInfo
    /\ props.liquidity.present /\ props.liquidity.hasLiquidity
    /\ ~amount.empty
    /\ ParseFloatPositive(amount)
    /\ ParseFloatPositive(slippage)

\* Mutant of ButtonDisabled: the button stays enabled while a trade executes.
ButtonDisabled_IgnoresExecuting(can, executing) == ~can

\* disabled={!canTrade || isExecuting} of the Execute button
ButtonDisabled(can, executing) == ~can \/ executing

\* Mutant of ReceiptToast: success is reported whatever tx.wait() answered.
ReceiptToast_Always(confirmed) == "success"

\* What handleTrade reports once tx.wait() has settled: toast.success after
\* the await, toast.error in the catch block when it threw.
ReceiptToast(confirmed) == IF confirmed THEN "success" ELSE "error"

\* Swap calls in the log of the running executeBuy / executeSell.
NumSwaps == Cardinality({k \in 1..Len(tlog) : tlog[k].call = "swap"})

\* The panel as constructed: useState("buy"), useState(""), useState("15"),
\* useState(false), under every combination of props.
PanelInit ==
    /\ props \in [wallet : BOOLEAN, tokenInfo : BOOLEAN, liquidity : PanelLiquidity]
    /\ mode = "buy"
    /\ amount = EmptyText
    /\ slippage = DefaultSlippage
    /\ isExecuting = FALSE
    /\ hpc = "idle"
    /\ toasts = <<>>
    /\ outcome = "none"
    /\ completed = 0
    /\ requests = 0
    /\ inFlight = 0
    /\ earlierSwaps = 0
    /\ TradeIdle
    /\ LiqIdle
    /\ PriceIdle
    /\ KeysIdle
    /\ WalletIdle
    /\ ProviderIdle
    /\ FormatIdle
    /\ TokenRefIdle
    /\ TokenInfoIdle
    /\ FacadeIdle
    /\ ShapeIdle
    /\ ApprovalIdle

\* onChange of the amount input (disabled without wallet or token). Edits are
\* taken between trades: a running handleTrade holds the values it captured.
SetAmount ==
    /\ hpc = "idle"
    /\ props.wallet /\ props.tokenInfo
    /\ \E text \in AmountTexts : amount' = text
    /\ UNCHANGED <<props, mode, slippage, isExecuting, hpc, toasts, outcome,
                   completed, requests, inFlight, earlierSwaps>>
    /\ UNCHANGED tradeVars
    /\ UNCHANGED liqVars
    /\ UNCHANGED priceVars
    /\ UNCHANGED keyVars
    /\ UNCHANGED walletVars
    /\ UNCHANGED providerVars
    /\ UNCHANGED formatVars
    /\ UNCHANGED tokenRefVars
    /\ UNCHANGED tokenInfoVars
    /\ UNCHANGED facadeVars
    /\ UNCHANGED shapeVars
    /\ UNCHANGED approvalVars

\* onChange of the slippage input and the slippage preset buttons
SetSlippage ==
    /\ hpc = "idle"
    /\ \E text \in SlippageTexts : slippage' = text
    /\ UNCHANGED <<props, mode, amount, isExecuting, hpc, toasts, outcome,
                   completed, requests, inFlight, earlierSwaps>>
    /\ UNCHANGED tradeVars
    /\ UNCHANGED liqVars
    /\ UNCHANGED priceVars
    /\ UNCHANGED keyVars
    /\ UNCHANGED walletVars
    /\ UNCHANGED providerVars
    /\ UNCHANGED formatVars
    /\ UNCHANGED tokenRefVars
    /\ UNCHANGED tokenInfoVars
    /\ UNCHANGED facadeVars
    /\ UNCHANGED shapeVars
    /\ UNCHANGED approvalVars

\* onClick of the Buy / Sell buttons: setMode(m); setAmount("")
SetMode ==
    /\ hpc = "idle"
    /\ \E m \in {"buy", "sell"} : mode' = m
    /\ amount' = EmptyText
    /\ UNCHANGED <<props, slippage, isExecuting, hpc, toasts, outcome,
                   completed, requests, inFlight, earlierSwaps>>
    /\ UNCHANGED tradeVars
    /\ UNCHANGED liqVars
    /\ UNCHANGED priceVars
    /\ UNCHANGED keyVars
    /\ UNCHANGED walletVars
    /\ UNCHANGED providerVars
    /\ UNCHANGED formatVars
    /\ UNCHANGED tokenRefVars
    /\ UNCHANGED tokenInfoVars
    /\ UNCHANGED facadeVars
    /\ UNCHANGED shapeVars
    /\ UNCHANGED approvalVars

\* Mutant of ExecutingAfter: the flag is cleared at the end of the try block
\* instead of in a finally block.
ExecutingAfter_ClearedInTry(ended) == ended # "confirmed"

\* finally { setIsExecuting(false) }: the executing flag once handleTrade has
\* ended, whether its try block completed or its catch block ran.
ExecutingAfter(ended) == FALSE

\* A click on the Execute button: handleTrade up to its call of executeBuy or
\* executeSell with the params it builds.
HandleTradeStart ==
    /\ ~ButtonDisabled(canTrade, isExecuting)
    /\ canTrade
    /\ requests < MaxRequests
    /\ isExecuting' = TRUE
    /\ toasts' = <<"loading">>
    /\ outcome' = "none"
    /\ completed' = 0
    /\ requests' = requests + 1
    /\ inFlight' = inFlight + 1
    /\ hpc' = "executing"
    /\ params' = [dir |-> mode, dex |-> props.liquidity.dex,
                  slippage |-> parseInt(slippage), amount |-> amount.tenths \div 10]
    /\ chain' \in [quote : QuoteOutcomes, gas : GasOutcomes]
    /\ tpc' = "getGasData"
    /\ amountIn' = 0
    /\ quoted' = NoQuote
    /\ amountOutMin' = 0
    /\ gasLimit' = 0
    /\ tlog' = <<>>
    /\ swapTx' = NoTx
    /\ error' = ""
    /\ UNCHANGED <<props, mode, amount, slippage, earlierSwaps>>
    /\ UNCHANGED liqVars
    /\ UNCHANGED priceVars
    /\ UNCHANGED keyVars
    /\ UNCHANGED walletVars
    /\ UNCHANGED providerVars
    /\ UNCHANGED formatVars
    /\ UNCHANGED tokenRefVars
    /\ UNCHANGED tokenInfoVars
    /\ UNCHANGED facadeVars
    /\ UNCHANGED shapeVars
    /\ UNCHANGED approvalVars

\* executeBuy / executeSell returned tx: toast.loading("TX broadcast: ...")
\* and the await of tx.wait() begins
HandleTradeBroadcast ==
    /\ hpc = "executing"
    /\ tpc = "returned"
    /\ toasts' = Append(toasts, "broadcast")
    /\ outcome' = "pending"
    /\ hpc' = "waiting"
    /\ UNCHANGED <<props, mode, amount, slippage, isExecuting, completed,
                   requests, inFlight, earlierSwaps>>
    /\ UNCHANGED tradeVars
    /\ UNCHANGED liqVars
    /\ UNCHANGED priceVars
    /\ UNCHANGED keyVars
    /\ UNCHANGED walletVars
    /\ UNCHANGED providerVars
    /\ UNCHANGED formatVars
    /\ UNCHANGED tokenRefVars
    /\ UNCHANGED tokenInfoVars
    /\ UNCHANGED facadeVars
    /\ UNCHANGED shapeVars
    /\ UNCHANGED approvalVars

\* executeBuy / executeSell threw: the catch block, then the finally block;
\* the finished call leaves nothing behind
HandleTradeCatch ==
    /\ hpc = "executing"
    /\ tpc = "threw"
    /\ toasts' = Append(toasts, "error")
    /\ outcome' = "threw"
    /\ isExecuting' = ExecutingAfter("threw")
    /\ inFlight' = inFlight - 1
    /\ earlierSwaps' = earlierSwaps + NumSwaps
    /\ hpc' = "idle"
    /\ params' = [dir |-> "buy", dex |-> "Uniswap V2", slippage |-> 1, amount |-> 1]
    /\ chain' = [quote |-> [ok |-> TRUE, out |-> 0, marker |-> FALSE],
                 gas |-> [ok |-> FALSE, estimated |-> 0]]
    /\ tpc' = "idle"
    /\ amountIn' = 0
    /\ quoted' = NoQuote
    /\ amountOutMin' = 0
    /\ gasLimit' = 0
    /\ tlog' = <<>>
    /\ swapTx' = NoTx
    /\ error' = ""
    /\ UNCHANGED <<props, mode, amount, slippage, completed, requests>>
    /\ UNCHANGED liqVars
    /\ UNCHANGED priceVars
    /\ UNCHANGED keyVars
    /\ UNCHANGED walletVars
    /\ UNCHANGED providerVars
    /\ UNCHANGED formatVars
    /\ UNCHANGED tokenRefVars
    /\ UNCHANGED tokenInfoVars
    /\ UNCHANGED facadeVars
    /\ UNCHANGED shapeVars
    /\ UNCHANGED approvalVars

\* await tx.wait() settled: toast.success, setAmount(""), onTradeComplete()
\* when the transaction was included, the catch block when it threw; then the
\* finally block
HandleTradeWait ==
    /\ hpc = "waiting"
    /\ \E confirmed \in BOOLEAN :
          /\ outcome' = IF confirmed THEN "confirmed" ELSE "reverted"
          /\ toasts' = Append(toasts, ReceiptToast(confirmed))
          /\ amount' = IF confirmed THEN EmptyText ELSE amount
          /\ completed' = IF confirmed THEN completed + 1 ELSE completed
          /\ isExecuting' =
                ExecutingAfter(IF confirmed THEN "confirmed" ELSE "reverted")
    /\ inFlight' = inFlight - 1
    /\ earlierSwaps' = earlierSwaps + NumSwaps
    /\ hpc' = "idle"
    /\ params' = [dir |-> "buy", dex |-> "Uniswap V2", slippage |-> 1, amount |-> 1]
    /\ chain' = [quote |-> [ok |-> TRUE, out |-> 0, marker |-> FALSE],
                 gas |-> [ok |-> FALSE, estimated |-> 0]]
    /\ tpc' = "idle"
    /\ amountIn' = 0
    /\ quoted' = NoQuote
    /\ amountOutMin' = 0
    /\ gasLimit' = 0
    /\ tlog' = <<>>
    /\ swapTx' = NoTx
    /\ error' = ""
    /\ UNCHANGED <<props, mode, slippage, requests>>
    /\ UNCHANGED liqVars
    /\ UNCHANGED priceVars
    /\ UNCHANGED keyVars
    /\ UNCHANGED walletVars
    /\ UNCHANGED providerVars
    /\ UNCHANGED formatVars
    /\ UNCHANGED tokenRefVars
    /\ UNCHANGED tokenInfoVars
    /\ UNCHANGED facadeVars
    /\ UNCHANGED shapeVars
    /\ UNCHANGED approvalVars

handleTrade ==
    \/ HandleTradeStart
    \/ executeBuy
    \/ executeSell
    \/ HandleTradeBroadcast
    \/ HandleTradeCatch
    \/ HandleTradeWait

(***************************************************************************)
(* Price oracle: fetchEthPrice and fetchTokenPriceUsd                       *)
(***************************************************************************)
\* The clock advances by half of the cache lifetime.
Tick == CACHE_TTL \div 2

\* answer of feed.latestRoundData()
Answers == 0..MaxAnswer

\* feed.decimals()
FeedDecimals == {0, 1}

\* reserves of pair.getReserves()
Reserves == 0..MaxReserve

\* pairAddress arguments: the empty string, the zero address, a pool
PairAddresses == {"", ZERO, "0xPair"}

\* The number 0.
ZeroPrice == [num |-> 0, den |-> 1]

\* Number(answer) / Math.pow(10, Number(feedDecimals)), as a fraction
FeedPrice(answer, feedDecimals) ==
    IF answer = 0 THEN ZeroPrice ELSE [num |-> answer, den |-> 10^feedDecimals]

\* _ethPriceCache && Date.now() - _ethPriceCache.timestamp < CACHE_TTL
Fresh == cache.set /\ now - cache.timestamp < CACHE_TTL

\* Mutant of FallbackPrice: a failed read answers 0 whatever is cached.
FallbackPrice_Zero(c) == ZeroPrice

\* _ethPriceCache?.price || 0
FallbackPrice(c) == IF c.set /\ c.price.num # 0 THEN c.price ELSE ZeroPrice

\* Mutant of NoPool: the zero address is taken for a pool.
NoPool_EmptyOnly(pairAddress) == pairAddress = ""

\* !pairAddress || pairAddress === ethers.ZeroAddress
NoPool(pairAddress) == pairAddress = "" \/ pairAddress = ZERO

\* tokenPriceInEth * ethPrice with tokenPriceInEth = tokenReserve > 0 ?
\* wethReserve / tokenReserve : 0, as a fraction (reserves in whole units)
TokenPriceUsd(tokenReserve, wethReserve, ethPrice) ==
    IF tokenReserve > 0 /\ wethReserve * ethPrice.num # 0
      THEN [num |-> wethReserve * ethPrice.num, den |-> tokenReserve * ethPrice.den]
      ELSE ZeroPrice

\* The next call to be made.
NextCall == CHOOSE c \in CallIds : ecalls[c].pc = "notMade" /\
                                   \A d \in CallIds : d < c => ecalls[d].pc # "notMade"

CallsLeft == \E c \in CallIds : ecalls[c].pc = "notMade"

\* fetchEthPrice from its entry to its first await: the cached price when the
\* cache is fresh, else the start of feed.latestRoundData()
Entered ==
    IF Fresh
      THEN [pc |-> "returned", madeAt |-> now, readsSeen |-> Len(reads),
            read |-> FALSE, failed |-> FALSE, answer |-> 0, value |-> cache.price]
      ELSE [pc |-> "latestRoundData", madeAt |-> now, readsSeen |-> Len(reads),
            read |-> TRUE, failed |-> FALSE, answer |-> 0, value |-> ZeroPrice]

\* The catch block of fetchEthPrice.
Caught(c) == [ecalls[c] EXCEPT !.pc = "returned", !.failed = TRUE, !.answer = 0,
                               !.value = FallbackPrice(cache)]

PriceInit ==
    /\ now = 0
    /\ cache = NoCache
    /\ ecalls = [c \in CallIds |-> NotMade]
    /\ reads = <<>>
    /\ tcall = TokenNotMade
    /\ LiqIdle
    /\ TradeIdle
    /\ PanelIdle
    /\ KeysIdle
    /\ WalletIdle
    /\ ProviderIdle
    /\ FormatIdle
    /\ TokenRefIdle
    /\ TokenInfoIdle
    /\ FacadeIdle
    /\ ShapeIdle
    /\ ApprovalIdle

\* fetchTokenPriceUsd is called with nothing cached, or with a price cached
\* that is still fresh or no longer is.
TokenPriceInit ==
    /\ now \in {0, CACHE_TTL - 1, CACHE_TTL}
    /\ cache \in {NoCache} \cup
                 {[set |-> TRUE, price |-> FeedPrice(a, d), timestamp |-> 0] :
                     a \in Answers, d \in FeedDecimals}
    /\ ecalls = [c \in CallIds |-> NotMade]
    /\ reads = <<>>
    /\ tcall = TokenNotMade
    /\ LiqIdle
    /\ TradeIdle
    /\ PanelIdle
    /\ KeysIdle
    /\ WalletIdle
    /\ ProviderIdle
    /\ FormatIdle
    /\ TokenRefIdle
    /\ TokenInfoIdle
    /\ FacadeIdle
    /\ ShapeIdle
    /\ ApprovalIdle

\* Time passes, up to the end of the lifetime of a price cached at the start.
ClockTick ==
    /\ now < CACHE_TTL
    /\ now' = now + Tick
    /\ UNCHANGED <<cache, ecalls, reads, tcall>>
    /\ UNCHANGED liqVars
    /\ UNCHANGED tradeVars
    /\ UNCHANGED panelVars
    /\ UNCHANGED keyVars
    /\ UNCHANGED walletVars
    /\ UNCHANGED providerVars
    /\ UNCHANGED formatVars
    /\ UNCHANGED tokenRefVars
    /\ UNCHANGED tokenInfoVars
    /\ UNCHANGED facadeVars
    /\ UNCHANGED shapeVars
    /\ UNCHANGED approvalVars

\* A caller calls fetchEthPrice().
FetchEthPriceCall ==
    /\ CallsLeft
    /\ ecalls' = [ecalls EXCEPT ![NextCall] = Entered]
    /\ UNCHANGED <<now, cache, reads, tcall>>
    /\ UNCHANGED liqVars
    /\ UNCHANGED tradeVars
    /\ UNCHANGED panelVars
    /\ UNCHANGED keyVars
    /\ UNCHANGED walletVars
    /\ UNCHANGED providerVars
    /\ UNCHANGED formatVars
    /\ UNCHANGED tokenRefVars
    /\ UNCHANGED tokenInfoVars
    /\ UNCHANGED facadeVars
    /\ UNCHANGED shapeVars
    /\ UNCHANGED approvalVars

\* await feed.latestRoundData() settles
FetchEthPriceRound ==
    /\ \E c \in CallIds :
          /\ ecalls[c].pc = "latestRoundData"
          /\ \E ok \in BOOLEAN, answer \in Answers :
                ecalls' = [ecalls EXCEPT ![c] =
                             IF ok THEN [@ EXCEPT !.pc = "decimals", !.answer = answer]
                                   ELSE Caught(c)]
    /\ UNCHANGED <<now, cache, reads, tcall>>
    /\ UNCHANGED liqVars
    /\ UNCHANGED tradeVars
    /\ UNCHANGED panelVars
    /\ UNCHANGED keyVars
    /\ UNCHANGED walletVars
    /\ UNCHANGED providerVars
    /\ UNCHANGED formatVars
    /\ UNCHANGED tokenRefVars
    /\ UNCHANGED tokenInfoVars
    /\ UNCHANGED facadeVars
    /\ UNCHANGED shapeVars
    /\ UNCHANGED approvalVars

\* await feed.decimals() settles: the price is computed, cached with
\* Date.now() and returned, or the catch block runs
FetchEthPriceDecimals ==
    /\ \E c \in CallIds :
          /\ ecalls[c].pc = "decimals"
          /\ \E ok \in BOOLEAN, feedDecimals \in FeedDecimals :
                LET price == FeedPrice(ecalls[c].answer, feedDecimals)
                IN  IF ok
                      THEN /\ cache' = [set |-> TRUE, price |-> price, timestamp |-> now]
                           /\ reads' = Append(reads, [t |-> now, price |-> price])
                           /\ ecalls' = [ecalls EXCEPT ![c].pc = "returned",
                                                       ![c].answer = 0,
                                                       ![c].value = price]
                      ELSE /\ ecalls' = [ecalls EXCEPT ![c] = Caught(c)]
                           /\ UNCHANGED <<cache, reads>>
    /\ UNCHANGED <<now, tcall>>
    /\ UNCHANGED liqVars
    /\ UNCHANGED tradeVars
    /\ UNCHANGED panelVars
    /\ UNCHANGED keyVars
    /\ UNCHANGED walletVars
    /\ UNCHANGED providerVars
    /\ UNCHANGED formatVars
    /\ UNCHANGED tokenRefVars
    /\ UNCHANGED tokenInfoVars
    /\ UNCHANGED facadeVars
    /\ UNCHANGED shapeVars
    /\ UNCHANGED approvalVars

fetchEthPrice ==
    \/ FetchEthPriceCall
    \/ FetchEthPriceRound
    \/ FetchEthPriceDecimals

\* A caller calls fetchTokenPriceUsd(pairAddress, ...): 0 at once without a
\* pool, else pair.getReserves(), pair.token0() and fetchEthPrice() are started
FetchTokenPriceCall ==
    /\ tcall.pc = "notMade"
    /\ CallsLeft
    /\ \E pairAddress \in PairAddresses :
          IF NoPool(pairAddress)
            THEN /\ tcall' = [tcall EXCEPT !.pc = "returned", !.pair = pairAddress]
                 /\ UNCHANGED ecalls
            ELSE /\ tcall' = [tcall EXCEPT !.pc = "reading", !.pair = pairAddress,
                                           !.eth = NextCall, !.poolReads = 2]
                 /\ ecalls' = [ecalls EXCEPT ![NextCall] = Entered]
    /\ UNCHANGED <<now, cache, reads>>
    /\ UNCHANGED liqVars
    /\ UNCHANGED tradeVars
    /\ UNCHANGED panelVars
    /\ UNCHANGED keyVars
    /\ UNCHANGED walletVars
    /\ UNCHANGED providerVars
    /\ UNCHANGED formatVars
    /\ UNCHANGED tokenRefVars
    /\ UNCHANGED tokenInfoVars
    /\ UNCHANGED facadeVars
    /\ UNCHANGED shapeVars
    /\ UNCHANGED approvalVars

\* pair.getReserves() or pair.token0() rejected: the catch block returns 0
FetchTokenPriceCatch ==
    /\ tcall.pc = "reading"
    /\ tcall' = [tcall EXCEPT !.pc = "returned", !.failed = TRUE, !.value = ZeroPrice]
    /\ UNCHANGED <<now, cache, ecalls, reads>>
    /\ UNCHANGED liqVars
    /\ UNCHANGED tradeVars
    /\ UNCHANGED panelVars
    /\ UNCHANGED keyVars
    /\ UNCHANGED walletVars
    /\ UNCHANGED providerVars
    /\ UNCHANGED formatVars
    /\ UNCHANGED tokenRefVars
    /\ UNCHANGED tokenInfoVars
    /\ UNCHANGED facadeVars
    /\ UNCHANGED shapeVars
    /\ UNCHANGED approvalVars

\* Promise.all resolved: the token's reserve is reserve0 when the token is
\* token0 and reserve1 otherwise, the other reserve is the WETH reserve
FetchTokenPriceSettle ==
    /\ tcall.pc = "reading"
    /\ ecalls[tcall.eth].pc = "returned"
    /\ \E reserve0 \in Reserves, reserve1 \in Reserves, isToken0 \in BOOLEAN :
          LET tokenReserve == IF isToken0 THEN reserve0 ELSE reserve1
              wethReserve  == IF isToken0 THEN reserve1 ELSE reserve0
          IN  tcall' = [tcall EXCEPT
                          !.pc = "returned",
                          !.tokenReserve = tokenReserve,
                          !.wethReserve = wethReserve,
                          !.value = TokenPriceUsd(tokenReserve, wethReserve,
                                                  ecalls[tcall.eth].value)]
    /\ UNCHANGED <<now, cache, ecalls, reads>>
    /\ UNCHANGED liqVars
    /\ UNCHANGED tradeVars
    /\ UNCHANGED panelVars
    /\ UNCHANGED keyVars
    /\ UNCHANGED walletVars
    /\ UNCHANGED providerVars
    /\ UNCHANGED formatVars
    /\ UNCHANGED tokenRefVars
    /\ UNCHANGED tokenInfoVars
    /\ UNCHANGED facadeVars
    /\ UNCHANGED shapeVars
    /\ UNCHANGED approvalVars

fetchTokenPriceUsd ==
    \/ FetchTokenPriceCall
    \/ FetchTokenPriceCatch
    \/ FetchTokenPriceSettle

(***************************************************************************)
(* Key custody: deriveKey, encryptKey and decryptKey                        *)
(***************************************************************************)
\* A private key string: 64 hex digits, bare or after "0x".
KeyStrings ==
    LET bodies == {[i \in 1..HexDigits |-> "a"],
                   [i \in 1..HexDigits |-> IF i % 2 = 0 THEN "F" ELSE "0"]}
    IN  bodies \cup {<<"0", "x">> \o b : b \in bodies}

\* Characters of a password; NUL is the character U+0000.
PasswordChars == {"p", "q", "NUL"}

Passwords == UNION {[1..n -> PasswordChars] : n \in 1..MaxPwLen}

\* crypto.getRandomValues(new Uint8Array(n)), over two values of the bytes
RandomBytes(n) == {[i \in 1..n |-> [kind |-> "byte", v |-> b]] : b \in 0..1}

\* The UTF-8 code of the characters the strings are made of.
CharCode(ch) ==
    CASE ch = "NUL" -> 0
      [] ch = " " -> 32
      [] ch = "0" -> 48
      [] ch = "F" -> 70
      [] ch = "a" -> 97
      [] ch = "g" -> 103
      [] ch = "p" -> 112
      [] ch = "q" -> 113
      [] ch = "x" -> 120

\* new TextEncoder().encode(text)
TextEncode(text) == [i \in 1..Len(text) |-> CharCode(text[i])]

\* new TextDecoder().decode(bytes)
TextDecode(bytes) ==
    [i \in 1..Len(bytes) |->
        CHOOSE ch \in {"NUL", " ", "0", "F", "a", "g", "p", "q", "x"} : CharCode(ch) = bytes[i]]

\* The key HMAC-SHA-256 works with inside PBKDF2: the password bytes, padded
\* with zero bytes to the block of the hash.
HmacKey(passwordBytes) ==
    passwordBytes \o [i \in 1..(Sha256Block - Len(passwordBytes)) |-> 0]

\* deriveKey(password, salt): PBKDF2 over the imported password and the salt
deriveKey(pw, salt) == [hmacKey |-> HmacKey(TextEncode(pw)), salt |-> salt]

\* crypto.subtle.encrypt({name: "AES-GCM", iv}, key, plaintext): one
\* ciphertext byte for each plaintext byte, then the authentication tag. The
\* tag is a function of key, iv and plaintext: its first byte carries the
\* three, the other bytes their position.
AesGcmEncrypt(key, iv, plaintext) ==
    [i \in 1..Len(plaintext) |-> [kind |-> "ct", v |-> <<plaintext[i]>>]]
    \o [j \in 1..TagBytes |->
          [kind |-> "tag", v |-> IF j = 1 THEN <<key, iv, plaintext>> ELSE <<j>>]]

\* crypto.subtle.decrypt({name: "AES-GCM", iv}, key, ciphertext): the
\* plaintext when the tag authenticates it under key and iv, else a rejection
AesGcmDecrypt(key, iv, ciphertext) ==
    IF Len(ciphertext) < TagBytes
      THEN [ok |-> FALSE, plaintext |-> <<>>]
      ELSE LET n == Len(ciphertext) - TagBytes
               plaintext == [i \in 1..n |-> ciphertext[i].v[1]]
           IN  IF /\ \A i \in 1..n : ciphertext[i].kind = "ct"
                  /\ \A j \in 1..TagBytes :
                        /\ ciphertext[n + j].kind = "tag"
                        /\ ciphertext[n + j].v =
                              (IF j = 1 THEN <<key, iv, plaintext>> ELSE <<j>>)
                 THEN [ok |-> TRUE, plaintext |-> plaintext]
                 ELSE [ok |-> FALSE, plaintext |-> <<>>]

\* btoa(String.fromCharCode(...bytes)): a group of four characters for every
\* three bytes, the last group holding what is left
btoa(bytes) ==
    [g \in 1..((Len(bytes) + 2) \div 3) |->
        SubSeq(bytes, 3 * g - 2, IF 3 * g < Len(bytes) THEN 3 * g ELSE Len(bytes))]

RECURSIVE atob(_)
\* Uint8Array.from(atob(b64), c => c.charCodeAt(0))
atob(b64) == IF b64 = <<>> THEN <<>> ELSE Head(b64) \o atob(Tail(b64))

\* encryptKey with the salt and iv it drew
encryptKey(key, pw, salt, iv) ==
    btoa(salt \o iv \o AesGcmEncrypt(deriveKey(pw, salt), iv, TextEncode(key)))

\* decryptKey: the key string, or the rejection of crypto.subtle.decrypt
decryptKey(encryptedB64, pw) ==
    LET combined   == atob(encryptedB64)
        salt       == SubSeq(combined, 1, 16)
        iv         == SubSeq(combined, 17, 28)
        ciphertext == SubSeq(combined, 29, Len(combined))
        opened     == AesGcmDecrypt(deriveKey(pw, salt), iv, ciphertext)
    IN  IF opened.ok THEN [ok |-> TRUE, key |-> TextDecode(opened.plaintext)]
                     ELSE [ok |-> FALSE, key |-> <<>>]

\* A key and a password to store it under.
KeysInit ==
    /\ kpc = "start"
    /\ privateKey \in KeyStrings
    /\ password \in Passwords
    /\ blob = <<>>
    /\ attempt = <<>>
    /\ decrypted = [ok |-> FALSE, key |-> <<>>]
    /\ LiqIdle
    /\ TradeIdle
    /\ PanelIdle
    /\ PriceIdle
    /\ WalletIdle
    /\ ProviderIdle
    /\ FormatIdle
    /\ TokenRefIdle
    /\ TokenInfoIdle
    /\ FacadeIdle
    /\ ShapeIdle
    /\ ApprovalIdle

\* await encryptKey(privateKey, password)
EncryptKey ==
    /\ kpc = "start"
    /\ \E salt \in RandomBytes(16), iv \in RandomBytes(12) :
          blob' = encryptKey(privateKey, password, salt, iv)
    /\ kpc' = "encrypted"
    /\ UNCHANGED <<privateKey, password, attempt, decrypted>>
    /\ UNCHANGED liqVars
    /\ UNCHANGED tradeVars
    /\ UNCHANGED panelVars
    /\ UNCHANGED priceVars
    /\ UNCHANGED walletVars
    /\ UNCHANGED providerVars
    /\ UNCHANGED formatVars
    /\ UNCHANGED tokenRefVars
    /\ UNCHANGED tokenInfoVars
    /\ UNCHANGED facadeVars
    /\ UNCHANGED shapeVars
    /\ UNCHANGED approvalVars

\* await decryptKey(blob, attempt), for any password
DecryptKey ==
    /\ kpc = "encrypted"
    /\ \E pw \in Passwords :
          /\ attempt' = pw
          /\ decrypted' = decryptKey(blob, pw)
    /\ kpc' = "decrypted"
    /\ UNCHANGED <<privateKey, password, blob>>
    /\ UNCHANGED liqVars
    /\ UNCHANGED tradeVars
    /\ UNCHANGED panelVars
    /\ UNCHANGED priceVars
    /\ UNCHANGED walletVars
    /\ UNCHANGED providerVars
    /\ UNCHANGED formatVars
    /\ UNCHANGED tokenRefVars
    /\ UNCHANGED tokenInfoVars
    /\ UNCHANGED facadeVars
    /\ UNCHANGED shapeVars
    /\ UNCHANGED approvalVars

(***************************************************************************)
(* Wallet session: connectHotWallet, the storage helpers, useWallet and    *)
(* the WalletPanel form that calls it                                       *)
(***************************************************************************)
\* [0-9a-fA-F]
HexChars == {"0", "1", "2", "3", "4", "5", "6", "7", "8", "9",
             "a", "b", "c", "d", "e", "f", "A", "B", "C", "D", "E", "F"}

\* A white-space character, as String.prototype.trim sees it.
WhiteSpace == {" "}

\* privateKey.trim()
Trim(text) ==
    LET Blank(i) == text[i] \in WhiteSpace
    IN  IF \A i \in 1..Len(text) : Blank(i) THEN <<>>
        ELSE SubSeq(text,
                    CHOOSE i \in 1..Len(text) :
                        ~Blank(i) /\ \A j \in 1..(i - 1) : Blank(j),
                    CHOOSE i \in 1..Len(text) :
                        ~Blank(i) /\ \A j \in (i + 1)..Len(text) : Blank(j))

\* key.startsWith("0x")
StartsWith0x(text) == Len(text) >= 2 /\ text[1] = "0" /\ text[2] = "x"

\* /^0x[0-9a-fA-F]{64}$/.test(key)
KeyPattern(key) ==
    /\ Len(key) = 2 + HexDigits
    /\ StartsWith0x(key)
    /\ \A i \in 3..Len(key) : key[i] \in HexChars

\* The lower-case form of a hex digit: a key is a number, whatever the case
\* of its digits.
LowerHex(ch) ==
    CASE ch = "A" -> "a" [] ch = "B" -> "b" [] ch = "C" -> "c"
      [] ch = "D" -> "d" [] ch = "E" -> "e" [] ch = "F" -> "f"
      [] OTHER -> ch

\* new ethers.Wallet(key, getAlchemyProvider()): the signing wallet of key
EthersWallet(key) == [privateKey |-> [i \in 1..Len(key) |-> LowerHex(key[i])]]

\* wallet.address
AddressOf(wallet) == [of |-> wallet.privateKey]

\* connectHotWallet(privateKey): the wallet, or the error it throws
connectHotWallet(keyText) ==
    LET trimmed == Trim(keyText)
        key     == IF StartsWith0x(trimmed) THEN trimmed
                   ELSE <<"0", "x">> \o trimmed
    IN  IF ~KeyPattern(key)
          THEN [ok |-> FALSE, wallet |-> NoWallet,
                failure |-> "Invalid private key format"]
          ELSE [ok |-> TRUE, wallet |-> EthersWallet(key), failure |-> ""]

setItem_KeepsOld(store, itemKey, value) ==
    store \cup {[key |-> itemKey, value |-> value]}

\* localStorage.setItem(key, value)
setItem(store, itemKey, value) ==
    {e \in store : e.key # itemKey} \cup {[key |-> itemKey, value |-> value]}

\* localStorage.getItem(key): null when nothing is stored under the key
getItem(store, itemKey) ==
    IF \E e \in store : e.key = itemKey
      THEN [null |-> FALSE, value |-> (CHOOSE e \in store : e.key = itemKey).value]
      ELSE [null |-> TRUE, value |-> <<>>]

\* localStorage.removeItem(key)
removeItem(store, itemKey) == {e \in store : e.key # itemKey}

saveEncryptedKey(store, encrypted) == setItem(store, STORAGE_KEY, encrypted)

loadEncryptedKey(store) == getItem(store, STORAGE_KEY)

clearStoredKey(store) == removeItem(store, STORAGE_KEY)

\* hasStoredKey(): localStorage.getItem(STORAGE_KEY) !== null
hasStoredKey(store) == ~getItem(store, STORAGE_KEY).null

\* A well-formed key, bare and with its prefix.
WalletKey == [i \in 1..HexDigits |-> IF i % 2 = 0 THEN "F" ELSE "0"]

\* What is typed into the private key field: well-formed keys, a key
\* followed by a blank, a key one digit short, a key with a letter that is
\* no hex digit.
KeyInputs ==
    {WalletKey, <<"0", "x">> \o WalletKey,
     WalletKey \o <<" ">>,
     SubSeq(WalletKey, 1, HexDigits - 1),
     SubSeq(WalletKey, 1, HexDigits - 1) \o <<"g">>}

\* What is typed into the password field (the form does not submit an
\* empty password).
WalletPasswords == {<<"p">>, <<"q">>}

\* The values fetchNativeBalance reads.
Balances == 0..MaxBalance

\* The values fetchEthPrice returns: 0 when it has neither a reading nor a
\* cached price.
EthPrices == 0..MaxAnswer

\* The full state connect and unlock set once their reads returned.
ConnectedState(wallet, bal, price) ==
    [wallet |-> wallet, address |-> AddressOf(wallet),
     balance |-> [reset |-> FALSE, wei |-> bal], ethPrice |-> price,
     isConnected |-> TRUE, isLoading |-> FALSE, hasStored |-> TRUE]

\* The submit button of the form is rendered and enabled.
CanSubmit == ~walletState.isConnected /\ ~walletState.isLoading

\* A browser profile that holds nothing, or the blob an earlier session
\* stored; the page has just loaded.
WalletInit ==
    /\ storage \in {{}} \cup
          {saveEncryptedKey({}, encryptKey(k, pw, salt, iv)) :
              k \in {WalletKey}, pw \in {<<"p">>},
              salt \in RandomBytes(16), iv \in RandomBytes(12)}
    /\ walletState = InitialWalletState(hasStoredKey(storage))
    /\ formMode = IF hasStoredKey(storage) THEN "unlock" ELSE "new"
    /\ submit = NoSubmit
    /\ refreshes = <<>>
    /\ cleared = FALSE
    /\ TradeIdle
    /\ PanelIdle
    /\ PriceIdle
    /\ KeysIdle
    /\ LiqIdle
    /\ ProviderIdle
    /\ FormatIdle
    /\ TokenRefIdle
    /\ TokenInfoIdle
    /\ FacadeIdle
    /\ ShapeIdle
    /\ ApprovalIdle

\* The Unlock / New Key buttons, rendered while a stored key is known.
SetFormMode ==
    /\ ~walletState.isConnected
    /\ walletState.hasStored
    /\ \E m \in {"new", "unlock"} : formMode' = m
    /\ UNCHANGED <<storage, walletState, submit, refreshes, cleared>>
    /\ UNCHANGED liqVars
    /\ UNCHANGED tradeVars
    /\ UNCHANGED panelVars
    /\ UNCHANGED priceVars
    /\ UNCHANGED keyVars
    /\ UNCHANGED providerVars
    /\ UNCHANGED formatVars
    /\ UNCHANGED tokenRefVars
    /\ UNCHANGED tokenInfoVars
    /\ UNCHANGED facadeVars
    /\ UNCHANGED shapeVars
    /\ UNCHANGED approvalVars

\* handleSubmit in mode "new": connect(privateKey, password) up to its first
\* await. connectHotWallet runs before it and its throw is caught at once.
ConnectStart ==
    /\ CanSubmit
    /\ formMode = "new"
    /\ \E k \in KeyInputs, pw \in WalletPasswords :
          LET made == connectHotWallet(k)
          IN  /\ submit' = [kind |-> "connect",
                            pc |-> IF made.ok THEN "encrypting" ELSE "idle",
                            key |-> k, pw |-> pw, wallet |-> made.wallet,
                            encrypted |-> <<>>, failure |-> made.failure]
              /\ walletState' = [walletState EXCEPT !.isLoading = made.ok]
    /\ UNCHANGED <<storage, formMode, refreshes, cleared>>
    /\ UNCHANGED liqVars
    /\ UNCHANGED tradeVars
    /\ UNCHANGED panelVars
    /\ UNCHANGED priceVars
    /\ UNCHANGED keyVars
    /\ UNCHANGED providerVars
    /\ UNCHANGED formatVars
    /\ UNCHANGED tokenRefVars
    /\ UNCHANGED tokenInfoVars
    /\ UNCHANGED facadeVars
    /\ UNCHANGED shapeVars
    /\ UNCHANGED approvalVars

\* const encrypted = await encryptKey(privateKey, password);
\* saveEncryptedKey(encrypted); then the two reads are started
ConnectEncrypted ==
    /\ submit.kind = "connect"
    /\ submit.pc = "encrypting"
    /\ \E salt \in RandomBytes(16), iv \in RandomBytes(12) :
          LET encrypted == encryptKey(submit.key, submit.pw, salt, iv)
          IN  /\ storage' = saveEncryptedKey(storage, encrypted)
              /\ submit' = [submit EXCEPT !.pc = "fetching",
                                          !.encrypted = encrypted]
    /\ UNCHANGED <<walletState, formMode, refreshes, cleared>>
    /\ UNCHANGED liqVars
    /\ UNCHANGED tradeVars
    /\ UNCHANGED panelVars
    /\ UNCHANGED priceVars
    /\ UNCHANGED keyVars
    /\ UNCHANGED providerVars
    /\ UNCHANGED formatVars
    /\ UNCHANGED tokenRefVars
    /\ UNCHANGED tokenInfoVars
    /\ UNCHANGED facadeVars
    /\ UNCHANGED shapeVars
    /\ UNCHANGED approvalVars

\* await Promise.all([fetchNativeBalance(wallet.address), fetchEthPrice()]):
\* the session is set, or the balance read failed and the catch block ran
ConnectFetched ==
    /\ submit.kind = "connect"
    /\ submit.pc = "fetching"
    /\ \/ /\ \E bal \in Balances, price \in EthPrices :
                walletState' = ConnectedState(submit.wallet, bal, price)
          /\ submit' = [submit EXCEPT !.pc = "idle"]
          /\ cleared' = FALSE
       \/ /\ walletState' = [walletState EXCEPT !.isLoading = FALSE]
          /\ submit' = [submit EXCEPT !.pc = "idle",
                                      !.failure = "balance read failed"]
          /\ UNCHANGED cleared
    /\ UNCHANGED <<storage, formMode, refreshes>>
    /\ UNCHANGED liqVars
    /\ UNCHANGED tradeVars
    /\ UNCHANGED panelVars
    /\ UNCHANGED priceVars
    /\ UNCHANGED keyVars
    /\ UNCHANGED providerVars
    /\ UNCHANGED formatVars
    /\ UNCHANGED tokenRefVars
    /\ UNCHANGED tokenInfoVars
    /\ UNCHANGED facadeVars
    /\ UNCHANGED shapeVars
    /\ UNCHANGED approvalVars

connect == ConnectStart \/ ConnectEncrypted \/ ConnectFetched

\* handleSubmit in mode "unlock": unlock(password) up to its first await
UnlockStart ==
    /\ CanSubmit
    /\ formMode = "unlock"
    /\ \E pw \in WalletPasswords :
          LET loaded == loadEncryptedKey(storage)
          IN  /\ submit' = [kind |-> "unlock",
                            pc |-> IF loaded.null THEN "idle" ELSE "decrypting",
                            key |-> <<>>, pw |-> pw, wallet |-> NoWallet,
                            encrypted |-> loaded.value,
                            failure |-> IF loaded.null THEN "No stored wallet"
                                        ELSE ""]
              /\ walletState' = [walletState EXCEPT !.isLoading = ~loaded.null]
    /\ UNCHANGED <<storage, formMode, refreshes, cleared>>
    /\ UNCHANGED liqVars
    /\ UNCHANGED tradeVars
    /\ UNCHANGED panelVars
    /\ UNCHANGED priceVars
    /\ UNCHANGED keyVars
    /\ UNCHANGED providerVars
    /\ UNCHANGED formatVars
    /\ UNCHANGED tokenRefVars
    /\ UNCHANGED tokenInfoVars
    /\ UNCHANGED facadeVars
    /\ UNCHANGED shapeVars
    /\ UNCHANGED approvalVars

\* const privateKey = await decryptKey(encrypted, password);
\* const wallet = connectHotWallet(privateKey); then the two reads are started
UnlockDecrypted ==
    /\ submit.kind = "unlock"
    /\ submit.pc = "decrypting"
    /\ LET opened == decryptKey(submit.encrypted, submit.pw)
           made   == connectHotWallet(opened.key)
       IN  IF opened.ok /\ made.ok
             THEN /\ submit' = [submit EXCEPT !.pc = "fetching",
                                              !.key = opened.key,
                                              !.wallet = made.wallet]
                  /\ UNCHANGED walletState
             ELSE /\ submit' = [submit EXCEPT
                                  !.pc = "idle",
                                  !.failure = IF opened.ok THEN made.failure
                                              ELSE "decryption rejected"]
                  /\ walletState' = [walletState EXCEPT !.isLoading = FALSE]
    /\ UNCHANGED <<storage, formMode, refreshes, cleared>>
    /\ UNCHANGED liqVars
    /\ UNCHANGED tradeVars
    /\ UNCHANGED panelVars
    /\ UNCHANGED priceVars
    /\ UNCHANGED keyVars
    /\ UNCHANGED providerVars
    /\ UNCHANGED formatVars
    /\ UNCHANGED tokenRefVars
    /\ UNCHANGED tokenInfoVars
    /\ UNCHANGED facadeVars
    /\ UNCHANGED shapeVars
    /\ UNCHANGED approvalVars

\* await Promise.all([fetchNativeBalance(wallet.address), fetchEthPrice()])
\* of unlock
UnlockFetched ==
    /\ submit.kind = "unlock"
    /\ submit.pc = "fetching"
    /\ \/ /\ \E bal \in Balances, price \in EthPrices :
                walletState' = ConnectedState(submit.wallet, bal, price)
          /\ submit' = [submit EXCEPT !.pc = "idle"]
       \/ /\ walletState' = [walletState EXCEPT !.isLoading = FALSE]
          /\ submit' = [submit EXCEPT !.pc = "idle",
                                      !.failure = "balance read failed"]
    /\ UNCHANGED <<storage, formMode, refreshes, cleared>>
    /\ UNCHANGED liqVars
    /\ UNCHANGED tradeVars
    /\ UNCHANGED panelVars
    /\ UNCHANGED priceVars
    /\ UNCHANGED keyVars
    /\ UNCHANGED providerVars
    /\ UNCHANGED formatVars
    /\ UNCHANGED tokenRefVars
    /\ UNCHANGED tokenInfoVars
    /\ UNCHANGED facadeVars
    /\ UNCHANGED shapeVars
    /\ UNCHANGED approvalVars

unlock == UnlockStart \/ UnlockDecrypted \/ UnlockFetched

\* The log-out button of the connected panel: disconnect()
disconnect ==
    /\ walletState.isConnected
    /\ storage' = clearStoredKey(storage)
    /\ walletState' = InitialWalletState(FALSE)
    /\ cleared' = TRUE
    /\ UNCHANGED <<formMode, submit, refreshes>>
    /\ UNCHANGED liqVars
    /\ UNCHANGED tradeVars
    /\ UNCHANGED panelVars
    /\ UNCHANGED priceVars
    /\ UNCHANGED keyVars
    /\ UNCHANGED providerVars
    /\ UNCHANGED formatVars
    /\ UNCHANGED tokenRefVars
    /\ UNCHANGED tokenInfoVars
    /\ UNCHANGED facadeVars
    /\ UNCHANGED shapeVars
    /\ UNCHANGED approvalVars

\* The interval of the polling effect fires: refreshBalance(state.address).
\* The interval exists while the session is connected with an address.
PollTick ==
    /\ walletState.isConnected
    /\ walletState.address # NoAddress
    /\ Len(refreshes) < MaxRefreshes
    /\ refreshes' = Append(refreshes, [address |-> walletState.address,
                                       origin |-> "poll"])
    /\ UNCHANGED <<storage, walletState, formMode, submit, cleared>>
    /\ UNCHANGED liqVars
    /\ UNCHANGED tradeVars
    /\ UNCHANGED panelVars
    /\ UNCHANGED priceVars
    /\ UNCHANGED keyVars
    /\ UNCHANGED providerVars
    /\ UNCHANGED formatVars
    /\ UNCHANGED tokenRefVars
    /\ UNCHANGED tokenInfoVars
    /\ UNCHANGED facadeVars
    /\ UNCHANGED shapeVars
    /\ UNCHANGED approvalVars

\* handleTradeComplete of the page: wallet.refreshBalance(wallet.address)
\* once a trade of the connected wallet has completed
HandleTradeComplete ==
    /\ walletState.isConnected
    /\ Len(refreshes) < MaxRefreshes
    /\ refreshes' = Append(refreshes, [address |-> walletState.address,
                                       origin |-> "trade"])
    /\ UNCHANGED <<storage, walletState, formMode, submit, cleared>>
    /\ UNCHANGED liqVars
    /\ UNCHANGED tradeVars
    /\ UNCHANGED panelVars
    /\ UNCHANGED priceVars
    /\ UNCHANGED keyVars
    /\ UNCHANGED providerVars
    /\ UNCHANGED formatVars
    /\ UNCHANGED tokenRefVars
    /\ UNCHANGED tokenInfoVars
    /\ UNCHANGED facadeVars
    /\ UNCHANGED shapeVars
    /\ UNCHANGED approvalVars

\* refreshBalance after its await: the reads of one call have returned and
\* the balance and price are set, or the balance read failed and is logged
refreshBalance ==
    /\ \E i \in 1..Len(refreshes) :
          /\ refreshes' = SubSeq(refreshes, 1, i - 1)
                          \o SubSeq(refreshes, i + 1, Len(refreshes))
          /\ \/ \E bal \in Balances, price \in EthPrices :
                   walletState' = [walletState EXCEPT
                                     !.balance = [reset |-> FALSE, wei |-> bal],
                                     !.ethPrice = price]
             \/ UNCHANGED walletState
    /\ UNCHANGED <<storage, formMode, submit, cleared>>
    /\ UNCHANGED liqVars
    /\ UNCHANGED tradeVars
    /\ UNCHANGED panelVars
    /\ UNCHANGED priceVars
    /\ UNCHANGED keyVars
    /\ UNCHANGED providerVars
    /\ UNCHANGED formatVars
    /\ UNCHANGED tokenRefVars
    /\ UNCHANGED tokenInfoVars
    /\ UNCHANGED facadeVars
    /\ UNCHANGED shapeVars
    /\ UNCHANGED approvalVars

\* The page is loaded again: the calls of the old page are gone, useWallet
\* and WalletPanel start from what localStorage holds.
Reload ==
    /\ walletState' = InitialWalletState(hasStoredKey(storage))
    /\ formMode' = IF hasStoredKey(storage) THEN "unlock" ELSE "new"
    /\ submit' = NoSubmit
    /\ refreshes' = <<>>
    /\ UNCHANGED <<storage, cleared>>
    /\ UNCHANGED liqVars
    /\ UNCHANGED tradeVars
    /\ UNCHANGED panelVars
    /\ UNCHANGED priceVars
    /\ UNCHANGED keyVars
    /\ UNCHANGED providerVars
    /\ UNCHANGED formatVars
    /\ UNCHANGED tokenRefVars
    /\ UNCHANGED tokenInfoVars
    /\ UNCHANGED facadeVars
    /\ UNCHANGED shapeVars
    /\ UNCHANGED approvalVars

(***************************************************************************)
(* Endpoint handles: getAlchemyProvider, the reads and the signing wallet   *)
(***************************************************************************)
\* new ethers.JsonRpcProvider(ALCHEMY_RPC, ...): the n-th object constructed
JsonRpcProvider(url, n) == [kind |-> "JsonRpcProvider", url |-> url, id |-> n]

getAlchemyProvider_NoMemo(held, count) ==
    [handle |-> JsonRpcProvider(ALCHEMY_RPC, count + 1), count |-> count + 1]

\* getAlchemyProvider(): the handle it returns and the value of
\* _jsonProvider afterwards, given _jsonProvider and the objects constructed
getAlchemyProvider(held, count) ==
    IF held # NoHandle
      THEN [handle |-> held, count |-> count]
      ELSE [handle |-> JsonRpcProvider(ALCHEMY_RPC, count + 1), count |-> count + 1]

\* The functions that read the chain; each takes its handle from
\* getAlchemyProvider().
ReadFunctions ==
    {"fetchNativeBalance", "getGasData", "checkLiquidityFast", "fetchEthPrice",
     "fetchTokenPriceUsd", "getTokenInfo", "fetchTokenBalance"}

\* How an endpoint treats a request: it answers within its stall timeout,
\* answers with an error, or does not answer in time.
EndpointStatus == {"ok", "error", "timeout"}

\* The endpoints a JsonRpcProvider handle sends a request to: its own one.
EndpointsAsked(handle) ==
    SelectSeq(BASE_RPC_URLS, LAMBDA url : url = handle.url)

\* A read function runs: it obtains its handle and sends its request through
\* it; the request is answered when an endpoint it was sent to answers.
ReadCall ==
    /\ \E fn \in ReadFunctions, status \in [1..Len(BASE_RPC_URLS) -> EndpointStatus] :
          LET got   == getAlchemyProvider(jsonProvider, created)
              asked == EndpointsAsked(got.handle)
          IN  /\ jsonProvider' = got.handle
              /\ created' = got.count
              /\ handed' = handed \cup {got.handle}
              /\ lastRead' = [fn |-> fn, status |-> status, asked |-> asked,
                              answered |-> \E i \in 1..Len(BASE_RPC_URLS) :
                                              /\ status[i] = "ok"
                                              /\ \E j \in 1..Len(asked) :
                                                    asked[j] = BASE_RPC_URLS[i]]
    /\ UNCHANGED <<signer, sent>>
    /\ UNCHANGED liqVars
    /\ UNCHANGED tradeVars
    /\ UNCHANGED panelVars
    /\ UNCHANGED priceVars
    /\ UNCHANGED keyVars
    /\ UNCHANGED walletVars
    /\ UNCHANGED formatVars
    /\ UNCHANGED tokenRefVars
    /\ UNCHANGED tokenInfoVars
    /\ UNCHANGED facadeVars
    /\ UNCHANGED shapeVars
    /\ UNCHANGED approvalVars

\* connectHotWallet past its format test:
\* new ethers.Wallet(key, getAlchemyProvider())
WalletCreated ==
    /\ LET got == getAlchemyProvider(jsonProvider, created)
       IN  /\ jsonProvider' = got.handle
           /\ created' = got.count
           /\ handed' = handed \cup {got.handle}
           /\ signer' = [present |-> TRUE, provider |-> got.handle]
    /\ UNCHANGED <<sent, lastRead>>
    /\ UNCHANGED liqVars
    /\ UNCHANGED tradeVars
    /\ UNCHANGED panelVars
    /\ UNCHANGED priceVars
    /\ UNCHANGED keyVars
    /\ UNCHANGED walletVars
    /\ UNCHANGED formatVars
    /\ UNCHANGED tokenRefVars
    /\ UNCHANGED tokenInfoVars
    /\ UNCHANGED facadeVars
    /\ UNCHANGED shapeVars
    /\ UNCHANGED approvalVars

\* ensureApproval's approve and the swap of executeBuy / executeSell: a
\* contract built on the wallet sends through the wallet's provider
SendTransaction ==
    /\ signer.present
    /\ \E what \in {"approve", "swap"} :
          sent' = sent \cup {[what |-> what, via |-> signer.provider]}
    /\ UNCHANGED <<jsonProvider, created, handed, signer, lastRead>>
    /\ UNCHANGED liqVars
    /\ UNCHANGED tradeVars
    /\ UNCHANGED panelVars
    /\ UNCHANGED priceVars
    /\ UNCHANGED keyVars
    /\ UNCHANGED walletVars
    /\ UNCHANGED formatVars
    /\ UNCHANGED tokenRefVars
    /\ UNCHANGED tokenInfoVars
    /\ UNCHANGED facadeVars
    /\ UNCHANGED shapeVars
    /\ UNCHANGED approvalVars

\* The module is loaded.
ProviderInit ==
    /\ jsonProvider = NoHandle
    /\ created = 0
    /\ handed = {}
    /\ signer = NoSigner
    /\ sent = {}
    /\ lastRead = NoRead
    /\ TradeIdle
    /\ PanelIdle
    /\ PriceIdle
    /\ KeysIdle
    /\ WalletIdle
    /\ LiqIdle
    /\ FormatIdle
    /\ TokenRefIdle
    /\ TokenInfoIdle
    /\ FacadeIdle
    /\ ShapeIdle
    /\ ApprovalIdle

(***************************************************************************)
(* formatUsd                                                                *)
(***************************************************************************)
\* The string prefix, then a number with two decimals given in hundredths,
\* then suffix: UsdText("$", 123, "K") is "$1.23K".
UsdText(prefix, hundredths, suffix) ==
    [prefix |-> prefix, hundredths |-> hundredths, suffix |-> suffix]

\* value < whole dollars
Below(value, whole) == value.whole < whole

\* (value / divisor).toFixed(2), in hundredths, for divisor 1 or a multiple of
\* 100: the multiple of a hundredth nearest to the quotient. Where the
\* decimal value lies half-way between two of them the binary number that
\* stands for it lies on either side, and toFixed rounds that number.
ToFixed2(value, divisor) ==
    IF divisor = 1
      THEN LET down == value.whole * 100 + value.milli \div 10
           IN  CASE value.milli % 10 < 5 -> {down}
                 [] value.milli % 10 = 5 -> {down, down + 1}
                 [] OTHER -> {down + 1}
      ELSE LET perHundredth == divisor \div 100
               down == value.whole \div perHundredth
               rest == (value.whole % perHundredth) * 1000 + value.milli
           IN  CASE rest < 500 * perHundredth -> {down}
                 [] rest = 500 * perHundredth -> {down, down + 1}
                 [] OTHER -> {down + 1}

formatUsd_ThousandFirst(value) ==
    IF value = Usd(0, 0) THEN {UsdText("$", 0, "")}
    ELSE IF value.whole = 0 /\ value.milli < 10 THEN {UsdText("<$", 1, "")}
    ELSE IF ~Below(value, 1000)
      THEN {UsdText("$", h, "K") : h \in ToFixed2(value, 1000)}
    ELSE IF ~Below(value, 1000000)
      THEN {UsdText("$", h, "M") : h \in ToFixed2(value, 1000000)}
    ELSE {UsdText("$", h, "") : h \in ToFixed2(value, 1)}

\* formatUsd(value): the strings it can return
formatUsd(value) ==
    IF value = Usd(0, 0) THEN {UsdText("$", 0, "")}
    ELSE IF value.whole = 0 /\ value.milli < 10 THEN {UsdText("<$", 1, "")}
    ELSE IF ~Below(value, 1000000)
      THEN {UsdText("$", h, "M") : h \in ToFixed2(value, 1000000)}
    ELSE IF ~Below(value, 1000)
      THEN {UsdText("$", h, "K") : h \in ToFixed2(value, 1000)}
    ELSE {UsdText("$", h, "") : h \in ToFixed2(value, 1)}

\* The values formatted: around each threshold and in each range.
UsdValues ==
    LET wholes == {0, 1, 12, 999, 1000, 1234, 1235, 999999}
                  \cup {m * 1000000 + r : m \in 1..MaxMillions,
                                          r \in {0, 4999, 5000, 500000}}
        millis == {0, 4, 5, 9, 10, 500, 995, 999}
    IN  {Usd(w, m) : w \in wholes, m \in millis}

\* A value to format.
FormatInit ==
    /\ usdValue \in UsdValues
    /\ usdText = Unformatted
    /\ TradeIdle
    /\ PanelIdle
    /\ PriceIdle
    /\ KeysIdle
    /\ WalletIdle
    /\ ProviderIdle
    /\ LiqIdle
    /\ TokenRefIdle
    /\ TokenInfoIdle
    /\ FacadeIdle
    /\ ShapeIdle
    /\ ApprovalIdle

\* formatUsd(usdValue)
FormatUsd ==
    /\ usdText = Unformatted
    /\ usdText' \in formatUsd(usdValue)
    /\ UNCHANGED usdValue
    /\ UNCHANGED liqVars
    /\ UNCHANGED tradeVars
    /\ UNCHANGED panelVars
    /\ UNCHANGED priceVars
    /\ UNCHANGED keyVars
    /\ UNCHANGED walletVars
    /\ UNCHANGED providerVars
    /\ UNCHANGED tokenRefVars
    /\ UNCHANGED tokenInfoVars
    /\ UNCHANGED facadeVars
    /\ UNCHANGED shapeVars
    /\ UNCHANGED approvalVars

(***************************************************************************)
(* Token reference: extractTokenAddress and useTokenInfo.fetchAll           *)
(***************************************************************************)
\* /0x[0-9a-fA-F]{40}/
AddressDigits == 40

\* The positions of text at which /0x[0-9a-fA-F]{40}/ matches.
AddressMatches(text) ==
    {i \in 1..(Len(text) - AddressDigits - 1) :
        /\ text[i] = "0"
        /\ text[i + 1] = "x"
        /\ \A j \in 2..(AddressDigits + 1) : text[i + j] \in HexChars}

\* input.match(/0x[0-9a-fA-F]{40}/): the first match, null when there is none
AddrMatch(text) ==
    IF AddressMatches(text) = {} THEN [null |-> TRUE, match |-> <<>>]
    ELSE LET i == CHOOSE i \in AddressMatches(text) :
                     \A j \in AddressMatches(text) : i <= j
         IN  [null |-> FALSE, match |-> SubSeq(text, i, i + AddressDigits + 1)]

UpperHex(ch) ==
    CASE ch = "a" -> "A" [] ch = "b" -> "B" [] ch = "c" -> "C"
      [] ch = "d" -> "D" [] ch = "e" -> "E" [] ch = "f" -> "F"
      [] OTHER -> ch

\* The digit at position i of an address is written in upper case in the
\* checksummed form. In ethers this is a bit of the keccak256 hash of the
\* lower-case digits; the model takes every fourth position.
ChecksumBit(i) == i % 4 = 1

\* The checksummed form of 40 hex digits.
ToChecksum(digits) ==
    [i \in 1..Len(digits) |->
        IF ChecksumBit(i) THEN UpperHex(LowerHex(digits[i]))
        ELSE LowerHex(digits[i])]

\* ethers.getAddress(address) for "0x" and 40 hex digits: the checksummed
\* form; an address written in mixed case must already be in that form, else
\* getAddress throws ("bad address checksum").
getAddress(address) ==
    LET digits  == SubSeq(address, 3, Len(address))
        lower   == [i \in 1..Len(digits) |-> LowerHex(digits[i])]
        upper   == [i \in 1..Len(digits) |-> UpperHex(digits[i])]
        mixed   == digits # lower /\ digits # upper
    IN  IF mixed /\ digits # ToChecksum(digits)
          THEN [ok |-> FALSE, address |-> <<>>]
          ELSE [ok |-> TRUE, address |-> <<"0", "x">> \o ToChecksum(digits)]

\* extractTokenAddress(input): the address, null, or the throw of getAddress
extractTokenAddress(text) ==
    LET found == AddrMatch(text)
    IN  IF found.null THEN [ok |-> TRUE, null |-> TRUE, address |-> <<>>]
        ELSE LET sum == getAddress(found.match)
             IN  [ok |-> sum.ok, null |-> FALSE, address |-> sum.address]

\* 40 hex digits in lower case, in upper case, in checksummed form, and in a
\* mixed case that is not the checksummed form.
LowerDigits == [i \in 1..AddressDigits |-> IF i % 2 = 1 THEN "a" ELSE "1"]

UpperDigits == [i \in 1..AddressDigits |-> UpperHex(LowerDigits[i])]

OtherCaseDigits ==
    [i \in 1..AddressDigits |->
        IF i % 4 = 3 THEN UpperHex(LowerDigits[i]) ELSE LowerDigits[i]]

\* What is typed or pasted into the token field: addresses in the four
\* cases, an address inside a URL, and strings that hold no address (nothing,
\* a word, 39 digits after 0x, 40 digits without 0x).
TokenInputs ==
    {<<"0", "x">> \o digits :
        digits \in {LowerDigits, UpperDigits, ToChecksum(LowerDigits),
                    OtherCaseDigits}}
    \cup {<<"h", "/">> \o <<"0", "x">> \o LowerDigits \o <<"?", "h">>,
          <<"h", "/">> \o <<"0", "x">> \o OtherCaseDigits}
    \cup {<<>>, <<"h", "/", "h">>,
          <<"0", "x">> \o SubSeq(LowerDigits, 1, AddressDigits - 1),
          LowerDigits \o <<"h", "h">>}

\* What checkLiquidityFast returns to fetchAll.
TokenLiquidities ==
    {[present |-> TRUE, dex |-> "None", hasLiquidity |-> FALSE],
     [present |-> TRUE, dex |-> "Uniswap V2", hasLiquidity |-> TRUE]}

\* The hook has just been mounted.
TokenRefInit ==
    /\ tokenState = InitialTokenState
    /\ fetchCall = NoFetchCall
    /\ TradeIdle
    /\ PanelIdle
    /\ PriceIdle
    /\ KeysIdle
    /\ WalletIdle
    /\ ProviderIdle
    /\ FormatIdle
    /\ LiqIdle
    /\ TokenInfoIdle
    /\ FacadeIdle
    /\ ShapeIdle
    /\ ApprovalIdle

\* fetchAll(input) up to its first await: extractTokenAddress throws, or it
\* returns null and the error is set, or the two lookups are started
FetchAllStart ==
    /\ fetchCall.pc # "reading"
    /\ \E text \in TokenInputs :
          LET got == extractTokenAddress(text)
          IN  IF ~got.ok
                THEN /\ fetchCall' = [pc |-> "rejected", input |-> text,
                                      address |-> <<>>, started |-> {}]
                     /\ UNCHANGED tokenState
              ELSE IF got.null
                THEN /\ fetchCall' = [pc |-> "returned", input |-> text,
                                      address |-> <<>>, started |-> {}]
                     /\ tokenState' = [tokenState EXCEPT
                                         !.error = "No valid token address found"]
              ELSE /\ fetchCall' = [pc |-> "reading", input |-> text,
                                    address |-> got.address,
                                    started |-> {"getTokenInfo", "checkLiquidityFast"}]
                   /\ tokenState' = [tokenState EXCEPT !.isLoading = TRUE,
                                                       !.error = ""]
    /\ UNCHANGED liqVars
    /\ UNCHANGED tradeVars
    /\ UNCHANGED panelVars
    /\ UNCHANGED priceVars
    /\ UNCHANGED keyVars
    /\ UNCHANGED walletVars
    /\ UNCHANGED providerVars
    /\ UNCHANGED formatVars
    /\ UNCHANGED tokenInfoVars
    /\ UNCHANGED facadeVars
    /\ UNCHANGED shapeVars
    /\ UNCHANGED approvalVars

\* fetchAll after its awaits: the full state is set, or getTokenInfo or
\* checkLiquidityFast rejected and the catch block ran
FetchAllSettle ==
    /\ fetchCall.pc = "reading"
    /\ \/ \E liq \in TokenLiquidities, bal \in 0..MaxTokenValue,
             price \in 0..MaxTokenValue :
             /\ liq.hasLiquidity \/ price = 0
             /\ tokenState' = [tokenInfo |-> [present |-> TRUE,
                                              address |-> fetchCall.address],
                               tokenBalance |-> bal, tokenPriceUsd |-> price,
                               liquidity |-> liq, isLoading |-> FALSE,
                               error |-> ""]
             /\ fetchCall' = [fetchCall EXCEPT
                                !.pc = "returned",
                                !.started = fetchCall.started \cup
                                    (IF liq.hasLiquidity
                                       THEN {"fetchTokenPriceUsd"} ELSE {})]
       \/ /\ tokenState' = [tokenState EXCEPT
                              !.isLoading = FALSE,
                              !.error = "Failed to fetch token info"]
          /\ fetchCall' = [fetchCall EXCEPT !.pc = "returned"]
    /\ UNCHANGED liqVars
    /\ UNCHANGED tradeVars
    /\ UNCHANGED panelVars
    /\ UNCHANGED priceVars
    /\ UNCHANGED keyVars
    /\ UNCHANGED walletVars
    /\ UNCHANGED providerVars
    /\ UNCHANGED formatVars
    /\ UNCHANGED tokenInfoVars
    /\ UNCHANGED facadeVars
    /\ UNCHANGED shapeVars
    /\ UNCHANGED approvalVars

fetchAll == FetchAllStart \/ FetchAllSettle

\* reset(), called when the token field is emptied
TokenReset ==
    /\ fetchCall.pc # "reading"
    /\ tokenState' = InitialTokenState
    /\ UNCHANGED fetchCall
    /\ UNCHANGED liqVars
    /\ UNCHANGED tradeVars
    /\ UNCHANGED panelVars
    /\ UNCHANGED priceVars
    /\ UNCHANGED keyVars
    /\ UNCHANGED walletVars
    /\ UNCHANGED providerVars
    /\ UNCHANGED formatVars
    /\ UNCHANGED tokenInfoVars
    /\ UNCHANGED facadeVars
    /\ UNCHANGED shapeVars
    /\ UNCHANGED approvalVars

(***************************************************************************)
(* Token descriptors: tokenInfoCache and getTokenInfo                       *)
(***************************************************************************)
\* tokenInfoCache.get(key): undefined when the Map has no such key
MapGet(map, key) ==
    IF \E e \in map : e.key = key
      THEN [found |-> TRUE, value |-> (CHOOSE e \in map : e.key = key).value]
      ELSE [found |-> FALSE, value |-> NoInfo]

\* tokenInfoCache.set(key, value)
MapSet(map, key, value) ==
    {e \in map : e.key # key} \cup {[key |-> key, value |-> value]}

\* The address of the one token looked up, as callers write it: in lower
\* case and in checksummed form.
LookupInputs ==
    {<<"0", "x">> \o LowerDigits, <<"0", "x">> \o ToChecksum(LowerDigits)}

\* The calls are numbered in the order they are made.
NextLookup(c) ==
    /\ lookups[c].pc = "notMade"
    /\ \A b \in LookupIds : b < c => lookups[b].pc # "notMade"

Finished_NotCached(c, nameNow, symbolNow, missed) ==
    LET info == [address |-> lookups[c].checksummed, name |-> nameNow,
                 symbol |-> symbolNow, decimals |-> lookups[c].decimals]
    IN  /\ tokenInfoCache' = tokenInfoCache
        /\ lookups' = [lookups EXCEPT ![c].pc = "returned",
                                      ![c].name = nameNow,
                                      ![c].symbol = symbolNow,
                                      ![c].unread = lookups[c].unread \cup missed,
                                      ![c].info = info]
        /\ firstInfo' = IF firstInfo.set THEN firstInfo
                        ELSE [set |-> TRUE, info |-> info]

\* const info = {address: checksummed, name, symbol, decimals};
\* tokenInfoCache.set(checksummed, info); return info;
\* with the locals as call c has them once name or symbol is given
\* (missed: the fields found unreadable in this step)
Finished(c, nameNow, symbolNow, missed) ==
    LET info == [address |-> lookups[c].checksummed, name |-> nameNow,
                 symbol |-> symbolNow, decimals |-> lookups[c].decimals]
    IN  /\ tokenInfoCache' = MapSet(tokenInfoCache, lookups[c].checksummed, info)
        /\ lookups' = [lookups EXCEPT ![c].pc = "returned",
                                      ![c].name = nameNow,
                                      ![c].symbol = symbolNow,
                                      ![c].unread = lookups[c].unread \cup missed,
                                      ![c].info = info]
        /\ firstInfo' = IF firstInfo.set THEN firstInfo
                        ELSE [set |-> TRUE, info |-> info]

\* A process that has cached nothing yet.
TokenInfoInit ==
    /\ tokenInfoCache = {}
    /\ lookups = [c \in LookupIds |-> LookupNotMade]
    /\ firstInfo = [set |-> FALSE, info |-> NoInfo]
    /\ TradeIdle
    /\ PanelIdle
    /\ PriceIdle
    /\ KeysIdle
    /\ WalletIdle
    /\ ProviderIdle
    /\ FormatIdle
    /\ TokenRefIdle
    /\ LiqIdle
    /\ FacadeIdle
    /\ ShapeIdle
    /\ ApprovalIdle

\* getTokenInfo(address) up to its first await: the cached descriptor is
\* returned, or the contracts are built and decimals() is called
GetTokenInfoEnter ==
    /\ \E c \in LookupIds, address \in LookupInputs :
          /\ NextLookup(c)
          /\ LET checksummed == getAddress(address).address
                 cached      == MapGet(tokenInfoCache, checksummed)
             IN  /\ lookups' = [lookups EXCEPT
                       ![c].pc = IF cached.found THEN "returned" ELSE "decimals",
                       ![c].checksummed = checksummed,
                       ![c].late = firstInfo.set,
                       ![c].hit = cached.found,
                       ![c].info = cached.value]
                 /\ firstInfo' = IF cached.found /\ ~firstInfo.set
                                   THEN [set |-> TRUE, info |-> cached.value]
                                   ELSE firstInfo
    /\ UNCHANGED tokenInfoCache
    /\ UNCHANGED liqVars
    /\ UNCHANGED tradeVars
    /\ UNCHANGED panelVars
    /\ UNCHANGED priceVars
    /\ UNCHANGED keyVars
    /\ UNCHANGED walletVars
    /\ UNCHANGED providerVars
    /\ UNCHANGED formatVars
    /\ UNCHANGED tokenRefVars
    /\ UNCHANGED facadeVars
    /\ UNCHANGED shapeVars
    /\ UNCHANGED approvalVars

\* decimals = await contract.decimals(), or the default when it fails
ReadDecimals ==
    /\ \E c \in LookupIds :
          /\ lookups[c].pc = "decimals"
          /\ \E answered \in BOOLEAN :
                lookups' = [lookups EXCEPT
                              ![c].pc = "name",
                              ![c].decimals = IF answered THEN TokenDecimals
                                              ELSE lookups[c].decimals,
                              ![c].unread = IF answered THEN lookups[c].unread
                                            ELSE lookups[c].unread \cup {"decimals"}]
    /\ UNCHANGED <<tokenInfoCache, firstInfo>>
    /\ UNCHANGED liqVars
    /\ UNCHANGED tradeVars
    /\ UNCHANGED panelVars
    /\ UNCHANGED priceVars
    /\ UNCHANGED keyVars
    /\ UNCHANGED walletVars
    /\ UNCHANGED providerVars
    /\ UNCHANGED formatVars
    /\ UNCHANGED tokenRefVars
    /\ UNCHANGED facadeVars
    /\ UNCHANGED shapeVars
    /\ UNCHANGED approvalVars

\* name = await contract.name(), or on to the bytes32 contract
ReadName ==
    /\ \E c \in LookupIds :
          /\ lookups[c].pc = "name"
          /\ \E answered \in BOOLEAN :
                lookups' = [lookups EXCEPT
                              ![c].pc = IF answered THEN "symbol" ELSE "nameB32",
                              ![c].name = IF answered THEN "Token"
                                          ELSE lookups[c].name]
    /\ UNCHANGED <<tokenInfoCache, firstInfo>>
    /\ UNCHANGED liqVars
    /\ UNCHANGED tradeVars
    /\ UNCHANGED panelVars
    /\ UNCHANGED priceVars
    /\ UNCHANGED keyVars
    /\ UNCHANGED walletVars
    /\ UNCHANGED providerVars
    /\ UNCHANGED formatVars
    /\ UNCHANGED tokenRefVars
    /\ UNCHANGED facadeVars
    /\ UNCHANGED shapeVars
    /\ UNCHANGED approvalVars

\* name = ethers.decodeBytes32String(await contractB32.name()), or "Unknown"
ReadNameB32 ==
    /\ \E c \in LookupIds :
          /\ lookups[c].pc = "nameB32"
          /\ \E answered \in BOOLEAN :
                lookups' = [lookups EXCEPT
                              ![c].pc = "symbol",
                              ![c].name = IF answered THEN "Token"
                                          ELSE lookups[c].name,
                              ![c].unread = IF answered THEN lookups[c].unread
                                            ELSE lookups[c].unread \cup {"name"}]
    /\ UNCHANGED <<tokenInfoCache, firstInfo>>
    /\ UNCHANGED liqVars
    /\ UNCHANGED tradeVars
    /\ UNCHANGED panelVars
    /\ UNCHANGED priceVars
    /\ UNCHANGED keyVars
    /\ UNCHANGED walletVars
    /\ UNCHANGED providerVars
    /\ UNCHANGED formatVars
    /\ UNCHANGED tokenRefVars
    /\ UNCHANGED facadeVars
    /\ UNCHANGED shapeVars
    /\ UNCHANGED approvalVars

\* symbol = await contract.symbol(): the descriptor is cached and returned,
\* or on to the bytes32 contract
ReadSymbol ==
    /\ \E c \in LookupIds :
          /\ lookups[c].pc = "symbol"
          /\ \/ Finished(c, lookups[c].name, "TKN", {})
             \/ /\ lookups' = [lookups EXCEPT ![c].pc = "symbolB32"]
                /\ UNCHANGED <<tokenInfoCache, firstInfo>>
    /\ UNCHANGED liqVars
    /\ UNCHANGED tradeVars
    /\ UNCHANGED panelVars
    /\ UNCHANGED priceVars
    /\ UNCHANGED keyVars
    /\ UNCHANGED walletVars
    /\ UNCHANGED providerVars
    /\ UNCHANGED formatVars
    /\ UNCHANGED tokenRefVars
    /\ UNCHANGED facadeVars
    /\ UNCHANGED shapeVars
    /\ UNCHANGED approvalVars

\* symbol = ethers.decodeBytes32String(await contractB32.symbol()), or "???";
\* the descriptor is cached and returned
ReadSymbolB32 ==
    /\ \E c \in LookupIds :
          /\ lookups[c].pc = "symbolB32"
          /\ \E answered \in BOOLEAN :
                Finished(c, lookups[c].name,
                         IF answered THEN "TKN" ELSE lookups[c].symbol,
                         IF answered THEN {} ELSE {"symbol"})
    /\ UNCHANGED liqVars
    /\ UNCHANGED tradeVars
    /\ UNCHANGED panelVars
    /\ UNCHANGED priceVars
    /\ UNCHANGED keyVars
    /\ UNCHANGED walletVars
    /\ UNCHANGED providerVars
    /\ UNCHANGED formatVars
    /\ UNCHANGED tokenRefVars
    /\ UNCHANGED facadeVars
    /\ UNCHANGED shapeVars
    /\ UNCHANGED approvalVars

getTokenInfo ==
    \/ GetTokenInfoEnter
    \/ ReadDecimals
    \/ ReadName
    \/ ReadNameB32
    \/ ReadSymbol
    \/ ReadSymbolB32

(***************************************************************************)
(* Token facade: useTokenInfo under overlapping fetchAll and reset calls    *)
(***************************************************************************)
\* 40 hex digits of a second token, written in upper case.
SecondDigits == [i \in 1..AddressDigits |-> IF i % 2 = 1 THEN "B" ELSE "2"]

\* What reaches fetchAll: the address of one token, a URL that holds the
\* address of a second token, an address with a bad checksum, and a string
\* that holds no address.
FacadeInputs ==
    {<<"0", "x">> \o LowerDigits,
     <<"h", "/">> \o <<"0", "x">> \o SecondDigits,
     <<"0", "x">> \o OtherCaseDigits,
     <<"h", "/", "h">>}

\* What getTokenInfo(address) resolves to, as far as the facade reads it.
InfoOf(address) == [present |-> TRUE, address |-> getAddress(address).address]

\* What checkLiquidityFast(address) resolves to when the first pool with
\* liquidity is on dex ("None": no pool). probed is the argument of the call,
\* which a LiquidityResult does not carry; pairAddress is non-empty exactly
\* when hasLiquidity.
ProbedRoute(address, dex) ==
    [present |-> TRUE, dex |-> dex, hasLiquidity |-> dex # "None",
     probed |-> address]

\* The values one fetchAll call for address can have awaited by line 70:
\* tokenPriceUsd stays 0 unless the route has liquidity.
Fetched(address) ==
    {[info |-> InfoOf(address), liquidity |-> ProbedRoute(address, "None"),
      balance |-> 0, price |-> 0],
     [info |-> InfoOf(address), liquidity |-> ProbedRoute(address, "Uniswap V2"),
      balance |-> 0, price |-> 0],
     [info |-> InfoOf(address), liquidity |-> ProbedRoute(address, "Uniswap V2"),
      balance |-> 1, price |-> 1]}

SetFetched_KeepsRoute(prev, got) ==
    [tokenInfo |-> got.info, tokenBalance |-> got.balance,
     tokenPriceUsd |-> got.price,
     liquidity |-> IF got.liquidity.hasLiquidity \/ ~prev.liquidity.present
                     THEN got.liquidity ELSE prev.liquidity,
     isLoading |-> FALSE, error |-> ""]

\* setState({tokenInfo: info, tokenBalance, tokenBalanceUsd, tokenPriceUsd,
\*           liquidity: liq, isLoading: false, error: null})
SetFetched(prev, got) ==
    [tokenInfo |-> got.info, tokenBalance |-> got.balance,
     tokenPriceUsd |-> got.price, liquidity |-> got.liquidity,
     isLoading |-> FALSE, error |-> ""]

\* The calls are numbered in the order they are made.
NextFetch(c) ==
    /\ fetches[c].pc = "notCalled"
    /\ \A b \in FetchIds : b < c => fetches[b].pc # "notCalled"

\* The hook has just been mounted.
FacadeInit ==
    /\ facade = InitialTokenState
    /\ fetches = [c \in FetchIds |-> FetchNotCalled]
    /\ latest = NoRequest
    /\ TradeIdle
    /\ PanelIdle
    /\ PriceIdle
    /\ KeysIdle
    /\ WalletIdle
    /\ ProviderIdle
    /\ FormatIdle
    /\ TokenRefIdle
    /\ TokenInfoIdle
    /\ LiqIdle
    /\ ShapeIdle
    /\ ApprovalIdle

\* fetchAll(input) up to its first await, whatever other calls are in
\* flight: extractTokenAddress throws, or it returns null and the error is
\* set, or isLoading is set and the lookups are started
FetchAllCalled ==
    /\ \E c \in FetchIds, text \in FacadeInputs :
          /\ NextFetch(c)
          /\ latest' = [kind |-> "fetchAll", id |-> c]
          /\ LET got == extractTokenAddress(text)
             IN  IF ~got.ok
                   THEN /\ fetches' = [fetches EXCEPT ![c].pc = "returned",
                                                      ![c].ended = "threw"]
                        /\ UNCHANGED facade
                 ELSE IF got.null
                   THEN /\ fetches' = [fetches EXCEPT ![c].pc = "returned",
                                                      ![c].ended = "noAddress"]
                        /\ facade' = [facade EXCEPT
                                        !.error = "No valid token address found"]
                 ELSE /\ fetches' = [fetches EXCEPT ![c].pc = "awaiting",
                                                    ![c].address = got.address]
                      /\ facade' = [facade EXCEPT !.isLoading = TRUE,
                                                  !.error = ""]
    /\ UNCHANGED liqVars
    /\ UNCHANGED tradeVars
    /\ UNCHANGED panelVars
    /\ UNCHANGED priceVars
    /\ UNCHANGED keyVars
    /\ UNCHANGED walletVars
    /\ UNCHANGED providerVars
    /\ UNCHANGED formatVars
    /\ UNCHANGED tokenRefVars
    /\ UNCHANGED tokenInfoVars
    /\ UNCHANGED shapeVars
    /\ UNCHANGED approvalVars

\* A fetchAll call after its awaits: the whole state is replaced
FetchAllResolved ==
    /\ \E c \in FetchIds :
          /\ fetches[c].pc = "awaiting"
          /\ \E got \in Fetched(fetches[c].address) :
                /\ facade' = SetFetched(facade, got)
                /\ fetches' = [fetches EXCEPT ![c].pc = "returned",
                                              ![c].ended = "fetched",
                                              ![c].fetched = got]
    /\ UNCHANGED latest
    /\ UNCHANGED liqVars
    /\ UNCHANGED tradeVars
    /\ UNCHANGED panelVars
    /\ UNCHANGED priceVars
    /\ UNCHANGED keyVars
    /\ UNCHANGED walletVars
    /\ UNCHANGED providerVars
    /\ UNCHANGED formatVars
    /\ UNCHANGED tokenRefVars
    /\ UNCHANGED tokenInfoVars
    /\ UNCHANGED shapeVars
    /\ UNCHANGED approvalVars

\* A fetchAll call whose awaited lookups rejected: the catch block
FetchAllCaught ==
    /\ \E c \in FetchIds :
          /\ fetches[c].pc = "awaiting"
          /\ facade' = [facade EXCEPT !.isLoading = FALSE,
                                      !.error = "Failed to fetch token info"]
          /\ fetches' = [fetches EXCEPT ![c].pc = "returned",
                                        ![c].ended = "caught"]
    /\ UNCHANGED latest
    /\ UNCHANGED liqVars
    /\ UNCHANGED tradeVars
    /\ UNCHANGED panelVars
    /\ UNCHANGED priceVars
    /\ UNCHANGED keyVars
    /\ UNCHANGED walletVars
    /\ UNCHANGED providerVars
    /\ UNCHANGED formatVars
    /\ UNCHANGED tokenRefVars
    /\ UNCHANGED tokenInfoVars
    /\ UNCHANGED shapeVars
    /\ UNCHANGED approvalVars

\* reset(), whatever calls are in flight
reset ==
    /\ facade' = InitialTokenState
    /\ latest' = [kind |-> "reset", id |-> 0]
    /\ UNCHANGED fetches
    /\ UNCHANGED liqVars
    /\ UNCHANGED tradeVars
    /\ UNCHANGED panelVars
    /\ UNCHANGED priceVars
    /\ UNCHANGED keyVars
    /\ UNCHANGED walletVars
    /\ UNCHANGED providerVars
    /\ UNCHANGED formatVars
    /\ UNCHANGED tokenRefVars
    /\ UNCHANGED tokenInfoVars
    /\ UNCHANGED shapeVars
    /\ UNCHANGED approvalVars

(***************************************************************************)
(* Call shape: the swap call executeBuy / executeSell make for a route      *)
(***************************************************************************)
WETH_BASE == "0x4200000000000000000000000000000000000006"

\* The LiquidityResult values with hasLiquidity that checkLiquidityFast
\* builds (no isStable; fee on a V3 route), and the values of the same
\* families that the type also allows: a V3 route without fee, an Aerodrome
\* route with isStable.
LiquidityRoutes ==
    {[present |-> TRUE, dex |-> "Uniswap V2", router |-> UNISWAP_V2_ROUTER,
      hasLiquidity |-> TRUE, fee |-> Absent, isStable |-> AbsentFlag]}
    \cup {[present |-> TRUE, dex |-> "Aerodrome", router |-> AERODROME_ROUTER,
           hasLiquidity |-> TRUE, fee |-> Absent, isStable |-> s] :
             s \in {AbsentFlag, Given(TRUE), Given(FALSE)}}
    \cup {[present |-> TRUE, dex |-> "Uniswap V3", router |-> UNISWAP_V3_ROUTER,
           hasLiquidity |-> TRUE, fee |-> f, isStable |-> AbsentFlag] :
             f \in {Absent} \cup {Given(feeTiers[i]) : i \in 1..Len(feeTiers)}}

\* The addresses of the tokens the panel is shown for.
PanelTokens == {"0xTokenA", "0xTokenB"}

\* params.fee || 3000
FeeOrDefault(fee) == IF fee.given /\ fee.value # 0 THEN fee.value ELSE 3000

\* params.isStable || false
StableOrFalse(isStable) == isStable.given /\ isStable.value

\* const params = {tokenAddress: tokenInfo.address, ..., dex: liquidity.dex,
\*                 router: liquidity.router, fee: liquidity.fee,
\*                 isStable: liquidity.isStable}
\* with the direction the ternary of line 90 reads and the route read
BuildParams(p) ==
    [built |-> TRUE, dir |-> p.mode, tokenAddress |-> p.tokenAddress,
     dex |-> p.liquidity.dex, router |-> p.liquidity.router,
     fee |-> p.liquidity.fee, isStable |-> p.liquidity.isStable,
     route |-> p.liquidity]

V3SwapCall_FeeUndefaulted(p, tokenIn, tokenOut) ==
    [made |-> TRUE, to |-> p.router, abi |-> "V3_ROUTER_ABI",
     method |-> "exactInputSingle",
     args |-> [tokenIn |-> tokenIn, tokenOut |-> tokenOut,
               fee |-> p.fee.value, sqrtPriceLimitX96 |-> 0]]

\* routerContract.exactInputSingle({tokenIn, tokenOut, fee: params.fee || 3000,
\*                                  ..., sqrtPriceLimitX96: 0}, ...)
V3SwapCall(p, tokenIn, tokenOut) ==
    [made |-> TRUE, to |-> p.router, abi |-> "V3_ROUTER_ABI",
     method |-> "exactInputSingle",
     args |-> [tokenIn |-> tokenIn, tokenOut |-> tokenOut,
               fee |-> FeeOrDefault(p.fee), sqrtPriceLimitX96 |-> 0]]

\* routerContract.swapExact...SupportingFeeOnTransferTokens(..., routes, ...)
\* with routes = [{from, to, stable: params.isStable || false}]
AerodromeSwapCall(p, method, from, to) ==
    [made |-> TRUE, to |-> p.router, abi |-> "AERODROME_ROUTER_ABI",
     method |-> method,
     args |-> [routes |-> <<[from |-> from, to |-> to,
                             stable |-> StableOrFalse(p.isStable)]>>]]

\* routerContract.swapExact...SupportingFeeOnTransferTokens(..., path, ...)
V2SwapCall(p, method, from, to) ==
    [made |-> TRUE, to |-> p.router, abi |-> "V2_ROUTER_ABI",
     method |-> method, args |-> [path |-> <<from, to>>]]

\* The swap call of executeBuy: the V3 branch, the Aerodrome branch, else V2
BuySwapCall(p) ==
    IF p.dex = "Uniswap V3" THEN V3SwapCall(p, WETH_BASE, p.tokenAddress)
    ELSE IF p.dex = "Aerodrome"
      THEN AerodromeSwapCall(p, SwapMethod("buy", p.dex), WETH_BASE, p.tokenAddress)
    ELSE V2SwapCall(p, SwapMethod("buy", p.dex), WETH_BASE, p.tokenAddress)

\* The swap call of executeSell: the V3 branch, the Aerodrome branch, else V2
SellSwapCall(p) ==
    IF p.dex = "Uniswap V3" THEN V3SwapCall(p, p.tokenAddress, WETH_BASE)
    ELSE IF p.dex = "Aerodrome"
      THEN AerodromeSwapCall(p, SwapMethod("sell", p.dex), p.tokenAddress, WETH_BASE)
    ELSE V2SwapCall(p, SwapMethod("sell", p.dex), p.tokenAddress, WETH_BASE)

\* The panel shows a token with a route, in either mode.
ShapeInit ==
    /\ routeProps \in [mode : {"buy", "sell"}, tokenAddress : PanelTokens,
                       liquidity : LiquidityRoutes]
    /\ tradeParams = NoParams
    /\ swapCall = NoCall
    /\ TradeIdle
    /\ PanelIdle
    /\ PriceIdle
    /\ KeysIdle
    /\ WalletIdle
    /\ ProviderIdle
    /\ FormatIdle
    /\ TokenRefIdle
    /\ TokenInfoIdle
    /\ FacadeIdle
    /\ LiqIdle
    /\ ApprovalIdle

\* The props or the mode change: another token is fetched, the route is
\* probed again, the token field is emptied, the mode is switched
PropsChanged ==
    /\ \/ routeProps' \in [mode : {"buy", "sell"}, tokenAddress : PanelTokens,
                          liquidity : LiquidityRoutes]
       \/ routeProps' = [mode |-> routeProps.mode, tokenAddress |-> "",
                         liquidity |-> NullLiquidity]
    /\ routeProps' # routeProps
    /\ UNCHANGED <<tradeParams, swapCall>>
    /\ UNCHANGED liqVars
    /\ UNCHANGED tradeVars
    /\ UNCHANGED panelVars
    /\ UNCHANGED priceVars
    /\ UNCHANGED keyVars
    /\ UNCHANGED walletVars
    /\ UNCHANGED providerVars
    /\ UNCHANGED formatVars
    /\ UNCHANGED tokenRefVars
    /\ UNCHANGED tokenInfoVars
    /\ UNCHANGED facadeVars
    /\ UNCHANGED approvalVars

\* handleTrade from the click to the call of executeBuy / executeSell
HandleTradeParams ==
    /\ ~tradeParams.built
    /\ routeProps.tokenAddress # ""
    /\ routeProps.liquidity.present
    /\ routeProps.liquidity.hasLiquidity
    /\ tradeParams' = BuildParams(routeProps)
    /\ UNCHANGED <<routeProps, swapCall>>
    /\ UNCHANGED liqVars
    /\ UNCHANGED tradeVars
    /\ UNCHANGED panelVars
    /\ UNCHANGED priceVars
    /\ UNCHANGED keyVars
    /\ UNCHANGED walletVars
    /\ UNCHANGED providerVars
    /\ UNCHANGED formatVars
    /\ UNCHANGED tokenRefVars
    /\ UNCHANGED tokenInfoVars
    /\ UNCHANGED facadeVars
    /\ UNCHANGED approvalVars

\* executeBuy / executeSell at their swap call
ExecuteSwapCall ==
    /\ tradeParams.built
    /\ ~swapCall.made
    /\ swapCall' = IF tradeParams.dir = "buy" THEN BuySwapCall(tradeParams)
                   ELSE SellSwapCall(tradeParams)
    /\ UNCHANGED <<routeProps, tradeParams>>
    /\ UNCHANGED liqVars
    /\ UNCHANGED tradeVars
    /\ UNCHANGED panelVars
    /\ UNCHANGED priceVars
    /\ UNCHANGED keyVars
    /\ UNCHANGED walletVars
    /\ UNCHANGED providerVars
    /\ UNCHANGED formatVars
    /\ UNCHANGED tokenRefVars
    /\ UNCHANGED tokenInfoVars
    /\ UNCHANGED facadeVars
    /\ UNCHANGED approvalVars

(***************************************************************************)
(* Approvals: ensureApproval over the successive sells of one wallet        *)
(***************************************************************************)
\* A wallet that has approved nothing.
ApprovalInit ==
    /\ allowances = [p \in ApprovalPairs |-> 0]
    /\ approvals = [p \in ApprovalPairs |-> 0]
    /\ settled = [p \in ApprovalPairs |-> FALSE]
    /\ laterApprovals = [p \in ApprovalPairs |-> 0]
    /\ sell = NoSell
    /\ TradeIdle
    /\ PanelIdle
    /\ PriceIdle
    /\ KeysIdle
    /\ WalletIdle
    /\ ProviderIdle
    /\ FormatIdle
    /\ TokenRefIdle
    /\ TokenInfoIdle
    /\ FacadeIdle
    /\ ShapeIdle
    /\ LiqIdle

\* executeSell(params) is called for a token and the router of its route
\* (handleTrade starts no trade while another is executing) and reaches
\* ensureApproval(tokenAddress, router, wallet)
SellRequested ==
    /\ sell.pc = "idle"
    /\ \E p \in ApprovalPairs :
          sell' = [pc |-> "allowance", pair |-> p, late |-> settled[p]]
    /\ UNCHANGED <<allowances, approvals, settled, laterApprovals>>
    /\ UNCHANGED liqVars
    /\ UNCHANGED tradeVars
    /\ UNCHANGED panelVars
    /\ UNCHANGED priceVars
    /\ UNCHANGED keyVars
    /\ UNCHANGED walletVars
    /\ UNCHANGED providerVars
    /\ UNCHANGED formatVars
    /\ UNCHANGED tokenRefVars
    /\ UNCHANGED tokenInfoVars
    /\ UNCHANGED facadeVars
    /\ UNCHANGED shapeVars

\* ensureApproval: const allowance = await contract.allowance(wallet.address,
\* spenderAddress); if (allowance < MaxUint256 / 2n) ... else return null
ApprovalAllowanceRead ==
    /\ sell.pc = "allowance"
    /\ \E ok \in BOOLEAN :
          sell' = [sell EXCEPT !.pc =
                     IF ~ok THEN "threw"
                     ELSE IF NeedsApproval(allowances[sell.pair]) THEN "approve"
                     ELSE "swap"]
    /\ UNCHANGED <<allowances, approvals, settled, laterApprovals>>
    /\ UNCHANGED liqVars
    /\ UNCHANGED tradeVars
    /\ UNCHANGED panelVars
    /\ UNCHANGED priceVars
    /\ UNCHANGED keyVars
    /\ UNCHANGED walletVars
    /\ UNCHANGED providerVars
    /\ UNCHANGED formatVars
    /\ UNCHANGED tokenRefVars
    /\ UNCHANGED tokenInfoVars
    /\ UNCHANGED facadeVars
    /\ UNCHANGED shapeVars

\* ensureApproval: const tx = await contract.approve(spenderAddress,
\* MaxUint256); return tx
ApprovalSubmitted ==
    /\ sell.pc = "approve"
    /\ approvals[sell.pair] < MaxApprovals
    /\ \E ok \in BOOLEAN :
          IF ok
            THEN /\ sell' = [sell EXCEPT !.pc = "approvalWait"]
                 /\ approvals' = [approvals EXCEPT
                                    ![sell.pair] = approvals[sell.pair] + 1]
                 /\ laterApprovals' =
                      [laterApprovals EXCEPT
                         ![sell.pair] = laterApprovals[sell.pair] +
                                          (IF settled[sell.pair] THEN 1 ELSE 0)]
            ELSE /\ sell' = [sell EXCEPT !.pc = "threw"]
                 /\ UNCHANGED <<approvals, laterApprovals>>
    /\ UNCHANGED <<allowances, settled>>
    /\ UNCHANGED liqVars
    /\ UNCHANGED tradeVars
    /\ UNCHANGED panelVars
    /\ UNCHANGED priceVars
    /\ UNCHANGED keyVars
    /\ UNCHANGED walletVars
    /\ UNCHANGED providerVars
    /\ UNCHANGED formatVars
    /\ UNCHANGED tokenRefVars
    /\ UNCHANGED tokenInfoVars
    /\ UNCHANGED facadeVars
    /\ UNCHANGED shapeVars

\* executeSell: if (approvalTx) await approvalTx.wait(): the transaction is
\* included and the allowance of the pair is MaxUint256, or it reverts
ApprovalWaited ==
    /\ sell.pc = "approvalWait"
    /\ \E ok \in BOOLEAN :
          IF ok
            THEN /\ sell' = [sell EXCEPT !.pc = "swap"]
                 /\ allowances' = [allowances EXCEPT ![sell.pair] = MaxUint256]
                 /\ settled' = [settled EXCEPT ![sell.pair] = TRUE]
            ELSE /\ sell' = [sell EXCEPT !.pc = "threw"]
                 /\ UNCHANGED <<allowances, settled>>
    /\ UNCHANGED <<approvals, laterApprovals>>
    /\ UNCHANGED liqVars
    /\ UNCHANGED tradeVars
    /\ UNCHANGED panelVars
    /\ UNCHANGED priceVars
    /\ UNCHANGED keyVars
    /\ UNCHANGED walletVars
    /\ UNCHANGED providerVars
    /\ UNCHANGED formatVars
    /\ UNCHANGED tokenRefVars
    /\ UNCHANGED tokenInfoVars
    /\ UNCHANGED facadeVars
    /\ UNCHANGED shapeVars

\* The rest of executeSell returns or throws and handleTrade ends
SellFinished ==
    /\ sell.pc \in {"swap", "threw"}
    /\ sell' = NoSell
    /\ UNCHANGED <<allowances, approvals, settled, laterApprovals>>
    /\ UNCHANGED liqVars
    /\ UNCHANGED tradeVars
    /\ UNCHANGED panelVars
    /\ UNCHANGED priceVars
    /\ UNCHANGED keyVars
    /\ UNCHANGED walletVars
    /\ UNCHANGED providerVars
    /\ UNCHANGED formatVars
    /\ UNCHANGED tokenRefVars
    /\ UNCHANGED tokenInfoVars
    /\ UNCHANGED facadeVars
    /\ UNCHANGED shapeVars

\* The allowance of a pair changes on chain: a swap of the router spends
\* from it, or the owner sets it elsewhere
AllowanceChanged ==
    /\ \E p \in ApprovalPairs, allowance \in Allowances :
          /\ allowance # allowances[p]
          /\ allowances' = [allowances EXCEPT ![p] = allowance]
          /\ settled' = [settled EXCEPT
                           ![p] = settled[p] /\ allowance >= MaxUint256 \div 2]
    /\ UNCHANGED <<approvals, laterApprovals, sell>>
    /\ UNCHANGED liqVars
    /\ UNCHANGED tradeVars
    /\ UNCHANGED panelVars
    /\ UNCHANGED priceVars
    /\ UNCHANGED keyVars
    /\ UNCHANGED walletVars
    /\ UNCHANGED providerVars
    /\ UNCHANGED formatVars
    /\ UNCHANGED tokenRefVars
    /\ UNCHANGED tokenInfoVars
    /\ UNCHANGED facadeVars
    /\ UNCHANGED shapeVars

(***************************************************************************)
(* Specifications                                                           *)
(***************************************************************************)
LiqNext == checkLiquidityFast

\* One run of checkLiquidityFast over every combination of pool states.
SpecLiquidity == LiqInit /\ [][LiqNext]_vars

TradeNext == executeBuy \/ executeSell

\* One run of executeBuy or executeSell over every TradeParams and every
\* answer of the chain.
SpecTrade == TradeInit /\ [][TradeNext]_vars

PanelNext == SetAmount \/ SetSlippage \/ SetMode \/ handleTrade

\* One trade panel: the user edits the inputs and clicks Execute, each click
\* that passes validation running executeBuy or executeSell to its end.
SpecPanel == PanelInit /\ [][PanelNext]_vars

\* The panel ready for a click on Execute: wallet and token present, any
\* liquidity result, either mode, an amount of 1 typed, default slippage.
PanelReadyInit ==
    /\ props \in [wallet : {TRUE}, tokenInfo : {TRUE}, liquidity : PanelLiquidity]
    /\ mode \in {"buy", "sell"}
    /\ amount = Text(10)
    /\ slippage = DefaultSlippage
    /\ isExecuting = FALSE
    /\ hpc = "idle"
    /\ toasts = <<>>
    /\ outcome = "none"
    /\ completed = 0
    /\ requests = 0
    /\ inFlight = 0
    /\ earlierSwaps = 0
    /\ TradeIdle
    /\ LiqIdle
    /\ PriceIdle
    /\ KeysIdle
    /\ WalletIdle
    /\ ProviderIdle
    /\ FormatIdle
    /\ TokenRefIdle
    /\ TokenInfoIdle
    /\ FacadeIdle
    /\ ShapeIdle
    /\ ApprovalIdle

\* handleTrade on the ready panel when every awaited call of a running
\* attempt (the reads, estimateGas and the swap inside executeBuy /
\* executeSell, tx.wait()) at last returns or fails and the continuation
\* after it is run.
SpecPanelFair ==
    /\ PanelReadyInit
    /\ [][handleTrade]_vars
    /\ WF_vars(executeBuy)
    /\ WF_vars(executeSell)
    /\ WF_vars(HandleTradeBroadcast)
    /\ WF_vars(HandleTradeCatch)
    /\ WF_vars(HandleTradeWait)

PriceNext == ClockTick \/ fetchEthPrice

\* fetchEthPrice under overlapping callers and a moving clock.
SpecPrice == PriceInit /\ [][PriceNext]_vars

TokenPriceNext == fetchTokenPriceUsd \/ FetchEthPriceRound \/ FetchEthPriceDecimals

\* One call of fetchTokenPriceUsd, with the fetchEthPrice call it makes, over
\* every state of the price cache.
SpecTokenPrice == TokenPriceInit /\ [][TokenPriceNext]_vars

KeysNext == EncryptKey \/ DecryptKey

\* A key encrypted under a password, then decrypted under any password.
SpecKeys == KeysInit /\ [][KeysNext]_vars

WalletNext ==
    \/ SetFormMode
    \/ connect
    \/ unlock
    \/ disconnect
    \/ PollTick
    \/ HandleTradeComplete
    \/ refreshBalance
    \/ Reload

\* The wallet panel over one browser profile: sessions are connected,
\* unlocked, refreshed and disconnected, and the page is reloaded.
SpecWallet == WalletInit /\ [][WalletNext]_vars

ProviderNext == ReadCall \/ WalletCreated \/ SendTransaction

\* Reads, wallets and transactions over the handles of one process.
SpecProvider == ProviderInit /\ [][ProviderNext]_vars

FormatNext == FormatUsd

\* formatUsd applied to one value.
SpecFormat == FormatInit /\ [][FormatNext]_vars

TokenRefNext == fetchAll \/ TokenReset

\* Token references handed to fetchAll, one call after the other.
SpecTokenRef == TokenRefInit /\ [][TokenRefNext]_vars

TokenInfoNext == getTokenInfo

\* getTokenInfo calls for one token, made at any time.
SpecTokenInfo == TokenInfoInit /\ [][TokenInfoNext]_vars

FacadeNext == FetchAllCalled \/ FetchAllResolved \/ FetchAllCaught \/ reset

\* One mounted useTokenInfo: fetchAll calls that overlap with each other and
\* with reset.
SpecFacade == FacadeInit /\ [][FacadeNext]_vars

ShapeNext == PropsChanged \/ HandleTradeParams \/ ExecuteSwapCall

\* One trade request: the params built from the props of the click, and the
\* swap call made from them while the props go on changing.
SpecShape == ShapeInit /\ [][ShapeNext]_vars

ApprovalNext ==
    \/ SellRequested
    \/ ApprovalAllowanceRead
    \/ ApprovalSubmitted
    \/ ApprovalWaited
    \/ SellFinished
    \/ AllowanceChanged

\* The sells of one wallet, one after the other, over the allowances the
\* chain holds.
SpecApproval == ApprovalInit /\ [][ApprovalNext]_vars
(***************************************************************************)
(* Claims about the liquidity resolver                                      *)
(***************************************************************************)
SlotIndex(s) == CHOOSE i \in 1..Len(Slots) : Slots[i] = s

\* The pool of slot s exists and holds a strictly positive WETH balance
\* (and the calls that read it succeed).
NonEmptyPool(s) ==
    pools[s].factory = "pool" /\ ~pools[s].balanceOfFails /\ pools[s].weth > 0

\* The pool of slot s exists and holds zero WETH.
EmptyPool(s) == pools[s].factory = "pool" /\ pools[s].weth = 0

\* The route the specification prescribes for slot s.
RouteOf(s) ==
    IF s = "v2"
      THEN [dex |-> "Uniswap V2", router |-> UNISWAP_V2_ROUTER,
            pairAddress |-> PoolAddress(s), hasLiquidity |-> TRUE]
    ELSE IF s = "aero"
      THEN [dex |-> "Aerodrome", router |-> AERODROME_ROUTER,
            pairAddress |-> PoolAddress(s), hasLiquidity |-> TRUE]
    ELSE [dex |-> "Uniswap V3", router |-> UNISWAP_V3_ROUTER,
          pairAddress |-> PoolAddress(s), hasLiquidity |-> TRUE,
          fee |-> feeTiers[SlotIndex(s) - 2]]

\* The route of the first slot, in priority order, with a non-empty pool.
FirstNonEmptyRoute ==
    IF \E s \in SlotSet : NonEmptyPool(s)
      THEN RouteOf(Slots[CHOOSE i \in 1..Len(Slots) :
                           /\ NonEmptyPool(Slots[i])
                           /\ \A j \in 1..(i - 1) : ~NonEmptyPool(Slots[j])])
      ELSE NoneResult

\* The factory of slot s has been queried.
Probed(s) == \E k \in 1..Len(calls) :
                 calls[k].slot = s /\ calls[k].call \in {"getPair", "getPool"}

\* The WETH balance of the pool of slot s has been read.
BalanceRead(s) == \E k \in 1..Len(calls) :
                      calls[k].slot = s /\ calls[k].call = "balanceOf"

\* Calls are made in priority order: a call for a slot comes after a factory
\* query of every earlier slot.
ProbesInOrder ==
    \A k \in 1..Len(calls) :
        \A j \in 1..(SlotIndex(calls[k].slot) - 1) :
            \E m \in 1..(k - 1) :
                calls[m].slot = Slots[j] /\ calls[m].call \in {"getPair", "getPool"}

\* C1: checkLiquidityFast probes V2, Aerodrome, V3 (3000, 10000, 500) in that
\* order, never a later one before every earlier one was tried, and returns
\* the route of the first family/tier whose pool exists and holds a strictly
\* positive WETH balance.
C1_FirstNonEmptyInOrder ==
    /\ ProbesInOrder
    /\ lpc = "done" => result = FirstNonEmptyRoute

\* C2: a result with hasLiquidity = true has a non-empty router, a non-zero
\* pairAddress, and the pool's WETH balance was read during the probe and
\* found strictly positive, for all three families and every V3 fee tier.
C2_HasLiquidityConfirmed ==
    (lpc = "done" /\ result.hasLiquidity) =>
        /\ result.router # ""
        /\ result.pairAddress \notin {"", ZERO}
        /\ \E s \in SlotSet :
              /\ result.pairAddress = PoolAddress(s)
              /\ BalanceRead(s)
              /\ pools[s].weth > 0

\* C3: an existing pool that holds zero WETH is never returned; probing
\* continues, an empty pool followed by a non-empty one yields the non-empty
\* one, and if every existing pool is empty the result is None.
C3_EmptyPoolSkipped ==
    lpc = "done" =>
        /\ \A s \in SlotSet : EmptyPool(s) => result.pairAddress # PoolAddress(s)
        /\ (\A s \in SlotSet : pools[s].factory = "pool" => EmptyPool(s))
              => result = NoneResult

\* C4: checkLiquidityFast never raises; a failing call is swallowed and the
\* remaining families/tiers are still probed; when no family yields a
\* non-empty pool (including when every call fails) the result is exactly
\* {dex: None, router: "", pairAddress: "", hasLiquidity: false}.
C4_NeverRaisesNoneOnTotalFailure ==
    /\ lpc # "raised"
    /\ lpc = "done" =>
          /\ ~result.hasLiquidity => \A s \in SlotSet : Probed(s)
          /\ (\A s \in SlotSet : ~NonEmptyPool(s)) => result = NoneResult

\* A state in which an empty V3 pool was returned as a route with liquidity.
EmptyV3PoolReturned ==
    /\ lpc = "done"
    /\ result.dex = "Uniswap V3"
    /\ \E s \in SlotSet : result.pairAddress = PoolAddress(s) /\ pools[s].weth = 0

(***************************************************************************)
(* Claims about the trade executor                                          *)
(***************************************************************************)
\* m is the integer floor of num / den.
IsFloor(m, num, den) == m * den <= num /\ num < (m + 1) * den

\* The call named `name` has been issued in this trade.
Issued(name) == \E k \in 1..Len(tlog) : tlog[k].call = name

\* A swap transaction has been handed to the router.
SwapBroadcast == swapTx.method # "none"

\* C5: for every quoted output q > 0 and slippage s in 1..50 the minimum
\* output used by executeBuy and executeSell is floor(q * (100 - s) / 100),
\* so 0 <= minimum <= q; q = 1,000,000 and s = 15 give exactly 850,000.
C5_MinimumOutputIsFloor ==
    quoted.got =>
        /\ quoted.out > 0
        /\ IsFloor(amountOutMin, quoted.out * (100 - params.slippage), 100)
        /\ 0 <= amountOutMin /\ amountOutMin <= quoted.out
        /\ (quoted.out = 1000000 /\ params.slippage = 15) => amountOutMin = 850000
        /\ SwapBroadcast => swapTx.amountOutMin = amountOutMin

\* A sell was broadcast with the floor 850,000 of the quote 1,000,000 at 15%.
C5_Witness ==
    /\ params.dir = "sell"
    /\ SwapBroadcast
    /\ quoted = [got |-> TRUE, out |-> 1000000]
    /\ params.slippage = 15
    /\ swapTx.amountOutMin = 850000

\* C6: on every route family, if the route's quote for the input amount is
\* zero the trade fails with a no-liquidity error before gas is estimated and
\* no swap transaction is broadcast.
C6_ZeroQuoteFailsBeforeGas ==
    (chain.quote.ok /\ chain.quote.out = 0) =>
        /\ ~Issued("estimateGas")
        /\ ~SwapBroadcast
        /\ tpc # "returned"

\* C7: every swap broadcast carries as minimum output the floor computed from
\* a non-zero quote obtained earlier in the same trade, and as gas limit the
\* limit produced by that trade's gas estimation.
C7_SwapCarriesQuotedFloor ==
    SwapBroadcast =>
        /\ quoted.got /\ quoted.out > 0
        /\ IsFloor(swapTx.amountOutMin, quoted.out * (100 - params.slippage), 100)
        /\ Issued("estimateGas")
        /\ swapTx.gasLimit = gasLimit

\* The gas limit the claim prescribes for the outcome of the simulation.
ExpectedGasLimit(lim) ==
    IF chain.gas.ok THEN IsFloor(lim, chain.gas.estimated * 130, 100)
                    ELSE lim = 300000

\* C8: gas estimation returns floor(g * 130 / 100) when the simulation
\* succeeds with g units and 300000 when it fails; a simulation failure never
\* fails the trade, which proceeds to broadcast with the fixed limit.
C8_GasLimitBufferOrFallback ==
    /\ Issued("estimateGas") => ExpectedGasLimit(gasLimit)
    /\ (tlog # <<>> /\ tlog[Len(tlog)].call = "estimateGas") => tpc = "broadcast"
    /\ SwapBroadcast => ExpectedGasLimit(swapTx.gasLimit)

\* A swap was broadcast with the fixed limit after a failed simulation.
C8_Witness ==
    /\ SwapBroadcast
    /\ ~chain.gas.ok
    /\ swapTx.gasLimit = 300000

\* Position in the log of the successful allowance read of this trade.
AllowanceReads == {k \in 1..Len(tlog) : tlog[k].call = "allowance" /\ tlog[k].ok}

\* C9: in executeSell, an allowance below MaxUint256/2 makes the trade submit
\* an approval for MaxUint256 and await its confirmation before any quote,
\* gas estimate or swap (no swap if the approval fails); an allowance of at
\* least MaxUint256/2 submits no approval.
C9_ApprovalBeforeSwap ==
    \A k \in AllowanceReads :
        IF tlog[k].arg < MaxUint256 \div 2
          THEN /\ IF k = Len(tlog)
                    THEN tpc = "approve"
                    ELSE tlog[k + 1].call = "approve" /\ tlog[k + 1].arg = MaxUint256
               /\ \A j \in 1..Len(tlog) :
                     tlog[j].call \in {"getAmountsOut", "estimateGas", "swap"} =>
                        \E m \in (k + 1)..(j - 1) :
                            tlog[m].call = "approve.wait" /\ tlog[m].ok
               /\ (\E m \in 1..Len(tlog) :
                      tlog[m].call \in {"approve", "approve.wait"} /\ ~tlog[m].ok)
                     => ~SwapBroadcast /\ tpc = "threw"
          ELSE ~Issued("approve") /\ ~Issued("approve.wait")

\* A sell was broadcast after its approval had been confirmed.
C9_Witness ==
    /\ params.dir = "sell"
    /\ SwapBroadcast
    /\ \E m \in 1..Len(tlog) : tlog[m].call = "approve.wait" /\ tlog[m].ok

\* A sell was broadcast without an approval, the allowance being sufficient.
C9_WitnessNoApproval ==
    /\ params.dir = "sell"
    /\ SwapBroadcast
    /\ ~Issued("approve")

\* The native balance read in this trade is below the minimum gas reserve.
BalanceBelowReserve ==
    \E k \in 1..Len(tlog) :
        tlog[k].call = "getBalance" /\ tlog[k].ok /\ tlog[k].arg < minGasNeeded

\* C10: in executeSell, a native balance below the minimum gas reserve fails
\* the trade with an insufficient-gas error before any contract call: no
\* token decimals/balance read, no allowance read, no approval or swap.
C10_GasReserveCheckedFirst ==
    BalanceBelowReserve =>
        /\ tpc = "threw" /\ error = "Insufficient ETH for gas"
        /\ \A k \in 1..Len(tlog) :
              tlog[k].call \notin {"decimals", "balanceOf", "allowance",
                                   "approve", "approve.wait", "swap"}

\* Positions in the log of the successful token reads of this trade.
TokenReads == {k \in 1..Len(tlog) : tlog[k].call = "balanceOf" /\ tlog[k].ok}

\* C11: in executeSell the amount sold is the wallet's token balance read in
\* that trade when the requested amount, parsed with the token's decimals,
\* exceeds it, and the requested amount otherwise; the input amount of the
\* broadcast swap never exceeds the balance read.
C11_SellAmountClamped ==
    \A k \in TokenReads :
        LET requested == params.amount * 10^(tlog[k - 1].arg)
            balance   == tlog[k].arg
        IN  /\ tlog[k - 1].call = "decimals"
            /\ requested > balance => amountIn = balance
            /\ requested <= balance => amountIn = requested
            /\ SwapBroadcast => swapTx.amountIn = amountIn /\ swapTx.amountIn <= balance

\* A sell was broadcast with its amount clamped to a smaller balance.
C11_Witness ==
    /\ params.dir = "sell"
    /\ SwapBroadcast
    /\ \E k \in TokenReads :
          /\ params.amount * 10^(tlog[k - 1].arg) > tlog[k].arg
          /\ swapTx.amountIn = tlog[k].arg

\* C12: a sell request made when the wallet's token balance is zero fails
\* with an explicit error and performs no network call: no fee-data read, no
\* contract read, no allowance read and no transaction.
C12_ZeroBalanceNoNetworkCall ==
    (tpc = "threw" /\ error = "No token balance to sell") => tlog = <<>>

\* A sell failed on a zero token balance.
C12_ZeroBalanceFailed ==
    /\ tpc = "threw"
    /\ error = "No token balance to sell"
    /\ \E k \in TokenReads : tlog[k].arg = 0

(***************************************************************************)
(* Claims about the trade panel                                             *)
(***************************************************************************)
Reported(kind, ts) == Cardinality({k \in 1..Len(ts) : ts[k] = kind})

QuoteFailed == \E k \in 1..Len(tlog) : tlog[k].call = "getAmountsOut" /\ ~tlog[k].ok

\* C13: while a trade request is being executed, a wallet is connected, a
\* token is resolved, the route has hasLiquidity = true, the amount handed to
\* executeBuy / executeSell is positive and the slippage percentage handed to
\* it lies in (0, 100].
C13_TradeOnlyWhenValid ==
    hpc # "idle" =>
        /\ props.wallet
        /\ props.tokenInfo
        /\ props.liquidity.hasLiquidity
        /\ params.amount > 0
        /\ params.slippage >= 1 /\ params.slippage <= 100

\* A request whose slippage is above 100, or truncates to 0, is executing.
C13_SlippageOutOfRange ==
    /\ hpc = "executing"
    /\ tpc # "getGasData"
    /\ params.slippage = 0 \/ params.slippage > 100

\* The part of C13 the panel does keep: everything but the slippage range.
PanelGuardsButSlippage ==
    hpc # "idle" =>
        /\ props.wallet
        /\ props.tokenInfo
        /\ props.liquidity.hasLiquidity
        /\ params.amount > 0

\* C14: success is reported, the amount cleared and onTradeComplete invoked
\* only by the step in which the inclusion wait of the broadcast swap ends
\* successfully; a request in which the quote call, the broadcast or the
\* inclusion failed ends with exactly one failure event, no success event and
\* no onTradeComplete.
C14_SettledOnlyAfterInclusion ==
    [][LET settles == hpc # "idle" /\ hpc' = "idle"
           failed  == QuoteFailed \/ tpc = "threw" \/ outcome' = "reverted"
       IN  /\ Reported("success", toasts') > Reported("success", toasts)
                => hpc = "waiting" /\ outcome' = "confirmed"
           /\ completed' > completed => hpc = "waiting" /\ outcome' = "confirmed"
           /\ (hpc # "idle" /\ amount' # amount) => outcome' = "confirmed"
           /\ (settles /\ failed)
                => /\ Reported("error", toasts') = 1
                   /\ Reported("success", toasts') = 0
                   /\ completed' = 0]_vars

\* A request whose quote call failed has broadcast its swap and awaits inclusion.
C14_QuoteFailedAwaitingInclusion ==
    /\ hpc = "waiting"
    /\ outcome = "pending"
    /\ QuoteFailed
    /\ swapTx # NoTx

\* The part of C14 the handler does keep: a failure is what executeBuy /
\* executeSell or tx.wait() raised.
SettledOnlyAfterInclusionOfRaised ==
    [][LET settles == hpc # "idle" /\ hpc' = "idle"
           failed  == tpc = "threw" \/ outcome' = "reverted"
       IN  /\ Reported("success", toasts') > Reported("success", toasts)
                => hpc = "waiting" /\ outcome' = "confirmed"
           /\ completed' > completed => hpc = "waiting" /\ outcome' = "confirmed"
           /\ (hpc # "idle" /\ amount' # amount) => outcome' = "confirmed"
           /\ (settles /\ failed)
                => /\ Reported("error", toasts') = 1
                   /\ Reported("success", toasts') = 0
                   /\ completed' = 0]_vars

\* C15: at most one handleTrade execution is between its validation and its
\* finally block, and executeBuy / executeSell runs only inside that one.
C15_SingleTradeInFlight ==
    /\ inFlight <= 1
    /\ inFlight = 1 <=> hpc # "idle"
    /\ tpc # "idle" => inFlight = 1 /\ isExecuting

\* A trade is waiting for inclusion while the inputs would pass validation
\* and a further request is possible.
C15_Witness ==
    /\ hpc = "waiting"
    /\ canTrade
    /\ requests < MaxRequests
    /\ inFlight = 1

\* C16: a request issues at most one swap call, and over the whole run the
\* swap calls never outnumber the requests the user made.
C16_AtMostOneSwapPerRequest ==
    /\ NumSwaps <= 1
    /\ earlierSwaps + NumSwaps <= requests

\* A request whose swap call failed has ended, with that one swap call only.
C16_Witness ==
    /\ hpc = "idle"
    /\ outcome = "threw"
    /\ requests = 1
    /\ earlierSwaps = 1

(***************************************************************************)
(* Claims about the price oracle                                            *)
(***************************************************************************)
Made == {c \in CallIds : ecalls[c].pc # "notMade"}

\* The successful reads that had completed when call c was made.
SeenBy(c) == 1..ecalls[c].readsSeen

InWindow(c, k) == ecalls[c].madeAt < reads[k].t + CACHE_TTL

\* Call c is the first call made at or after the end of the window of read k.
FirstAfterWindow(c, k) ==
    /\ ~InWindow(c, k)
    /\ \A d \in Made : (d < c /\ k \in SeenBy(d)) => InWindow(d, k)

\* C17: a call made after a successful read at time t and before t + 30 s
\* makes no network read and returns the price of that read; the first call
\* made at or after t + 30 s makes a network read.
C17_CachedForThirtySeconds ==
    \A c \in Made : \A k \in SeenBy(c) :
        /\ InWindow(c, k) =>
              /\ ~ecalls[c].read
              /\ ecalls[c].pc = "returned" => ecalls[c].value = reads[k].price
        /\ FirstAfterWindow(c, k) => ecalls[c].read

\* A read that began before another read completed has completed after it.
C17_OverlappingReadsCompleted ==
    \E c \in Made : \E k \in 1..Len(reads) :
        /\ ecalls[c].read
        /\ ecalls[c].pc = "returned"
        /\ ~ecalls[c].failed
        /\ k > ecalls[c].readsSeen + 1

\* The part of C17 the cache does keep: the window of the latest successful
\* read.
CachedSinceLatestRead ==
    \A c \in Made :
        LET k == ecalls[c].readsSeen
        IN  k > 0 =>
              /\ InWindow(c, k) =>
                    /\ ~ecalls[c].read
                    /\ ecalls[c].pc = "returned" => ecalls[c].value = reads[k].price
              /\ ~InWindow(c, k) => ecalls[c].read

\* C18: the step in which an oracle read of a call fails returns from the
\* call (nothing is raised) with the cached price, or 0 when nothing is
\* cached, and leaves the cache as it was.
C18_FailedReadFallsBack ==
    [][\A c \in CallIds :
          (ecalls[c].pc \in {"latestRoundData", "decimals"} /\ ecalls'[c].failed)
            => /\ ecalls'[c].pc = "returned"
               /\ ecalls'[c].value = (IF cache.set THEN cache.price ELSE ZeroPrice)
               /\ cache' = cache]_vars

\* A call whose read failed has returned a cached price that is not 0.
C18_Witness ==
    \E c \in Made :
        /\ ecalls[c].pc = "returned"
        /\ ecalls[c].failed
        /\ ecalls[c].value # ZeroPrice

\* C19: fetchTokenPriceUsd never ends but by returning; it returns 0 without
\* starting any read when the pool address is empty or the zero address, and
\* returns 0 when a pool read failed or the token-side reserve is 0.
C19_TokenPriceZeroCases ==
    /\ tcall.pc \in {"notMade", "reading", "returned"}
    /\ tcall.pc = "returned" =>
          /\ (tcall.pair = "" \/ tcall.pair = ZERO) =>
                /\ tcall.value = ZeroPrice
                /\ tcall.poolReads = 0
                /\ tcall.eth = 0
                /\ \A c \in CallIds : ecalls[c].pc = "notMade"
          /\ tcall.failed => tcall.value = ZeroPrice
          /\ (tcall.poolReads > 0 /\ ~tcall.failed /\ tcall.tokenReserve = 0)
                => tcall.value = ZeroPrice

\* The call returned for a pool whose reads succeeded, whose token-side
\* reserve is 0 and whose WETH reserve is not, at an ETH price that is not 0.
C19_Witness ==
    /\ tcall.pc = "returned"
    /\ tcall.pair = "0xPair"
    /\ ~tcall.failed
    /\ tcall.tokenReserve = 0
    /\ tcall.wethReserve > 0
    /\ ecalls[tcall.eth].value # ZeroPrice

\* The call returned for the zero address.
TokenPriceOfZeroAddress == tcall.pc = "returned" /\ tcall.pair = ZERO

(***************************************************************************)
(* Claims about key custody                                                 *)
(***************************************************************************)
\* C20: decryptKey under the password the key was encrypted with returns the
\* key string exactly, and under any other password it rejects.
C20_RoundTripAndWrongPassword ==
    kpc = "decrypted" =>
        /\ attempt = password => decrypted = [ok |-> TRUE, key |-> privateKey]
        /\ attempt # password => ~decrypted.ok

\* decryptKey returned the key under a password other than the one used.
C20_OtherPasswordAccepted ==
    /\ kpc = "decrypted"
    /\ attempt # password
    /\ decrypted.ok
    /\ decrypted.key = privateKey

\* The part of C20 that holds: the round trip is exact, and a password that
\* gives PBKDF2 another HMAC key is rejected.
RoundTripAndOtherHmacKey ==
    kpc = "decrypted" =>
        /\ attempt = password => decrypted = [ok |-> TRUE, key |-> privateKey]
        /\ HmacKey(TextEncode(attempt)) # HmacKey(TextEncode(password))
              => ~decrypted.ok

(***************************************************************************)
(* Claims about the wallet session                                          *)
(***************************************************************************)
\* Exactly 64 hexadecimal characters, optionally after the prefix 0x.
StrictKey(text) ==
    \/ Len(text) = HexDigits /\ \A i \in 1..Len(text) : text[i] \in HexChars
    \/ KeyPattern(text)

\* The step taken by a connect call whose key string satisfies Malformed ends
\* the call with the format error: no encryption is awaited, storage is left
\* as it was and the session is not connected.
RejectedAtOnce(Malformed(_)) ==
    (submit' # submit /\ submit'.kind = "connect" /\ Malformed(submit'.key))
      => /\ submit'.pc = "idle"
         /\ submit'.failure = "Invalid private key format"
         /\ submit'.encrypted = <<>>
         /\ storage' = storage
         /\ ~walletState'.isConnected

NotStrict(text) == ~StrictKey(text)

NotStrictTrimmed(text) == ~StrictKey(Trim(text))

\* C21: connect with a key string that is not exactly 64 hexadecimal
\* characters (optionally 0x-prefixed) fails with the invalid-key-format error
\* before any cryptographic operation and before any write to storage, and
\* the session stays disconnected.
C21_MalformedKeyRejected == [][RejectedAtOnce(NotStrict)]_vars

\* A session is connected with the key string that is followed by a blank,
\* and that string is what has been encrypted and stored.
C21_PaddedKeyConnected ==
    /\ walletState.isConnected
    /\ submit.kind = "connect"
    /\ ~StrictKey(submit.key)
    /\ \E e \in storage : e.value = submit.encrypted

\* What holds of connectHotWallet: a key string that is malformed after its
\* surrounding white space is removed is rejected at once.
MalformedAfterTrimRejected == [][RejectedAtOnce(NotStrictTrimmed)]_vars

\* What encryptKey returns for a key typed into the form.
EncryptedBlobs ==
    {encryptKey(k, pw, salt, iv) :
        k \in KeyInputs, pw \in WalletPasswords,
        salt \in RandomBytes(16), iv \in RandomBytes(12)}

\* C22: persistent storage holds nothing, or exactly one item, under the
\* single storage key, whose value is a blob encryptKey returned; no item is
\* a private key string.
C22_OneEncryptedBlobOrNothing ==
    /\ Cardinality(storage) <= 1
    /\ \A e \in storage :
          /\ e.key = STORAGE_KEY
          /\ e.value \in EncryptedBlobs
          /\ e.value \notin KeyInputs
          /\ \A k \in KeyInputs : e.value # btoa(TextEncode(k))

\* A connect has stored its blob, the session is connected and a trade of
\* the session has completed.
C22_Witness ==
    /\ walletState.isConnected
    /\ submit.kind = "connect"
    /\ storage = {[key |-> STORAGE_KEY, value |-> submit.encrypted]}
    /\ \E i \in 1..Len(refreshes) : refreshes[i].origin = "trade"

\* The refreshBalance calls in flight that the interval started.
PollingInFlight == {i \in 1..Len(refreshes) : refreshes[i].origin = "poll"}

\* C23: at most one refresh started by the polling interval is in flight at
\* any time (a tick that fires while one is outstanding is skipped).
C23_OnePollingRefreshInFlight == Cardinality(PollingInFlight) <= 1

\* Two refreshes of the interval are in flight for the connected wallet.
C23_TwoPollingRefreshes ==
    /\ walletState.isConnected
    /\ Cardinality(PollingInFlight) = 2
    /\ \A i \in PollingInFlight : refreshes[i].address = walletState.address

\* C24: after disconnect no refresh updates the session: while it stays
\* disconnected it keeps the reset balance and price, and no refresh tick
\* fires.
C24_DisconnectedKeepsReset ==
    (cleared /\ ~walletState.isConnected)
      => /\ walletState.balance = ResetBalance
         /\ walletState.ethPrice = 0

\* A disconnected session shows a balance that a refresh started before the
\* disconnect has read.
C24_RefreshAfterDisconnect ==
    /\ cleared
    /\ ~walletState.isConnected
    /\ walletState.wallet = NoWallet
    /\ walletState.address = NoAddress
    /\ ~walletState.balance.reset

\* What holds of the polling effect: no refresh is started while the session
\* is disconnected.
NoTickWhileDisconnected ==
    [][~walletState.isConnected => Len(refreshes') <= Len(refreshes)]_vars

\* C29: from disconnect until a connect succeeds the session holds no
\* signing wallet (wallet null, not connected, address empty, balance and
\* price reset) and, when no connect is under way, nothing is stored, which
\* is when unlock fails with the no-stored-wallet error.
C29_DestroyedUntilConnectSucceeds ==
    cleared
      => /\ walletState.wallet = NoWallet
         /\ ~walletState.isConnected
         /\ walletState.address = NoAddress
         /\ walletState.balance = ResetBalance
         /\ walletState.ethPrice = 0
         /\ submit.pc = "idle" => loadEncryptedKey(storage).null

\* After a disconnect no connect has succeeded, and unlock has opened a
\* session from the blob that a failed connect left in storage.
C29_UnlockedAfterFailedConnect ==
    /\ cleared
    /\ walletState.isConnected
    /\ submit.kind = "unlock"
    /\ submit.failure = ""
    /\ hasStoredKey(storage)

(***************************************************************************)
(* Claims about the endpoint handles                                        *)
(***************************************************************************)
\* C25: a read whose primary endpoint fails is still answered when another
\* configured endpoint responds within its stall timeout, and an endpoint of
\* lower priority is asked only after every endpoint before it timed out or
\* answered with an error.
C25_ReadsFallBack ==
    lastRead.fn # "none"
      => /\ (\E i \in 1..Len(BASE_RPC_URLS) : lastRead.status[i] = "ok")
               => lastRead.answered
         /\ \A i \in 1..Len(BASE_RPC_URLS) :
               (\E j \in 1..Len(lastRead.asked) : lastRead.asked[j] = BASE_RPC_URLS[i])
                 => \A h \in 1..(i - 1) : lastRead.status[h] # "ok"

\* A balance read was left unanswered: the primary endpoint timed out, the
\* second endpoint would have answered and was not asked.
C25_PrimaryDownReadFails ==
    /\ lastRead.fn = "fetchNativeBalance"
    /\ lastRead.status[1] = "timeout"
    /\ lastRead.status[2] = "ok"
    /\ lastRead.asked = <<ALCHEMY_RPC>>
    /\ ~lastRead.answered

\* C26: every transaction submitted (approval or swap) goes through the one
\* JsonRpcProvider handle of the dedicated endpoint, and getAlchemyProvider
\* returns the same handle on every call: one object is constructed.
C26_SingleSigningHandle ==
    /\ \A tx \in sent :
          /\ tx.via.kind = "JsonRpcProvider"
          /\ tx.via.url = ALCHEMY_RPC
          /\ tx.via = jsonProvider
    /\ Cardinality(handed) <= 1
    /\ handed \subseteq {jsonProvider}
    /\ created <= 1

\* An approval and a swap were sent after reads and the wallet each called
\* getAlchemyProvider.
C26_Witness ==
    /\ Cardinality(sent) = 2
    /\ lastRead.fn # "none"
    /\ signer.present
    /\ created = 1

(***************************************************************************)
(* Claims about formatUsd                                                   *)
(***************************************************************************)
\* The number of text, with two decimals, is value / divisor to within half
\* a hundredth (divisor 1, 1000 or 1000000).
TwoDecimalsOf(text, value, divisor) ==
    IF divisor = 1
      THEN LET milli == value.whole * 1000 + value.milli
           IN  /\ text.hundredths * 10 - 5 <= milli
               /\ milli <= text.hundredths * 10 + 5
      ELSE LET perHundredth == divisor \div 100
               low  == text.hundredths * perHundredth - perHundredth \div 2
               high == text.hundredths * perHundredth + perHundredth \div 2
           IN  /\ low <= value.whole
               /\ value.whole < high \/ (value.whole = high /\ value.milli = 0)

\* C27: formatUsd returns "$0.00" for 0, "<$0.01" for 0 < v < 0.01, "$X.XXM"
\* with X.XX = v / 1,000,000 for v >= 1,000,000, "$X.XXK" with X.XX = v / 1,000
\* for 1,000 <= v < 1,000,000, else "$X.XX" with X.XX = v, each with two
\* decimals; 0.004 gives "<$0.01", 1234.5 "$1.23K" and 2,500,000 "$2.50M".
C27_FormatUsdRules ==
    usdText # Unformatted =>
      /\ CASE usdValue = Usd(0, 0) -> usdText = UsdText("$", 0, "")
           [] usdValue # Usd(0, 0) /\ usdValue.whole = 0 /\ usdValue.milli < 10 ->
                usdText = UsdText("<$", 1, "")
           [] usdValue.whole >= 1000000 ->
                /\ usdText.prefix = "$" /\ usdText.suffix = "M"
                /\ TwoDecimalsOf(usdText, usdValue, 1000000)
           [] usdValue.whole >= 1000 /\ usdValue.whole < 1000000 ->
                /\ usdText.prefix = "$" /\ usdText.suffix = "K"
                /\ TwoDecimalsOf(usdText, usdValue, 1000)
           [] OTHER ->
                /\ usdText.prefix = "$" /\ usdText.suffix = ""
                /\ TwoDecimalsOf(usdText, usdValue, 1)
      /\ usdValue = Usd(0, 4) => usdText = UsdText("<$", 1, "")
      /\ usdValue = Usd(1234, 500) => usdText = UsdText("$", 123, "K")
      /\ usdValue = Usd(2500000, 0) => usdText = UsdText("$", 250, "M")

\* 2,500,000 has been formatted.
C27_Witness ==
    /\ usdValue = Usd(2500000, 0)
    /\ usdText # Unformatted

(***************************************************************************)
(* Claims about the token reference                                         *)
(***************************************************************************)
\* The step is the first one of a fetchAll call.
FetchAllEntered == fetchCall.pc # "reading" /\ fetchCall' # fetchCall

\* What fetchAll does with an input that holds no address: it reports the
\* error, starts no network call and leaves token, liquidity route, price
\* and balance as they were.
NoAddressReported ==
    /\ fetchCall'.pc = "returned"
    /\ fetchCall'.started = {}
    /\ tokenState' = [tokenState EXCEPT !.error = "No valid token address found"]

\* What fetchAll does with an input that holds an address, required of the
\* inputs that satisfy Written: it goes on with that address in checksummed
\* form.
ExtractsChecksummed(Written(_)) ==
    (FetchAllEntered /\ ~AddrMatch(fetchCall'.input).null
       /\ Written(AddrMatch(fetchCall'.input).match))
      => /\ fetchCall'.pc = "reading"
         /\ fetchCall'.address =
               <<"0", "x">> \o ToChecksum(SubSeq(AddrMatch(fetchCall'.input).match,
                                                 3, AddressDigits + 2))

AnyCase(address) == TRUE

AcceptedCase(address) == getAddress(address).ok

\* C28: a fetchAll call whose input holds an address (0x and 40 hex digits,
\* alone or inside a longer string) goes on with that address in checksummed
\* form; a call whose input holds none reports the no-address error, starts
\* no network call and leaves token, liquidity route, price and balance
\* unchanged.
C28_AddressExtractedOrReported ==
    [][/\ ExtractsChecksummed(AnyCase)
       /\ (FetchAllEntered /\ AddrMatch(fetchCall'.input).null)
             => NoAddressReported]_vars

\* fetchAll was called with an address whose letters are in a mixed case
\* that is not its checksummed form, while a token is held: the call was
\* rejected and no error is shown.
C28_MixedCaseRejected ==
    /\ fetchCall.pc = "rejected"
    /\ ~AddrMatch(fetchCall.input).null
    /\ tokenState.tokenInfo.present
    /\ tokenState.error = ""

\* What holds of fetchAll: an address in lower case, in upper case or in its
\* checksummed form is extracted, and an input without address is reported.
AcceptedCaseExtractedOrReported ==
    [][/\ ExtractsChecksummed(AcceptedCase)
       /\ (FetchAllEntered /\ AddrMatch(fetchCall'.input).null)
             => NoAddressReported]_vars

(***************************************************************************)
(* Claims about the token descriptors                                       *)
(***************************************************************************)
\* Call c is made in this step.
LookupMade(c) == lookups[c].pc = "notMade" /\ lookups'[c].pc # "notMade"

\* C30: once getTokenInfo has returned a descriptor for an address, every
\* getTokenInfo call made later for that address, in any letter case, returns
\* that descriptor without a contract read, and no step replaces or changes
\* the cached descriptor of an address, however the calls interleave.
C30_DescriptorCachedForLife ==
    [][/\ \A e \in tokenInfoCache : e \in tokenInfoCache'
       /\ \A c \in LookupIds :
             (LookupMade(c) /\ firstInfo.set)
               => /\ lookups'[c].pc = "returned"
                  /\ lookups'[c].hit
                  /\ lookups'[c].info = firstInfo.info]_vars

\* A call made after a descriptor had been returned has returned another
\* one, which is now the cached one: a call that was under way has replaced
\* the entry.
C30_LaterCallGotOtherDescriptor ==
    \E c \in LookupIds :
        /\ lookups[c].pc = "returned"
        /\ lookups[c].late
        /\ lookups[c].hit
        /\ lookups[c].info # firstInfo.info
        /\ MapGet(tokenInfoCache, lookups[c].checksummed).value = lookups[c].info

\* What holds of getTokenInfo: a call made while a descriptor is cached, in
\* either letter case, returns the cached one without a contract read.
CachedDescriptorServed ==
    [][\A c \in LookupIds :
          (LookupMade(c) /\ tokenInfoCache # {})
            => /\ lookups'[c].pc = "returned"
               /\ lookups'[c].hit
               /\ \E e \in tokenInfoCache : lookups'[c].info = e.value
               /\ tokenInfoCache' = tokenInfoCache]_vars

(***************************************************************************)
(* Claims about the token facade                                            *)
(***************************************************************************)
\* The fetchAll calls that have not returned.
InFlight == {c \in FetchIds : fetches[c].pc = "awaiting"}

\* The four fields the facade holds for a token.
Held(st) ==
    [info |-> st.tokenInfo, liquidity |-> st.liquidity,
     balance |-> st.tokenBalance, price |-> st.tokenPriceUsd]

\* The four held values are those of one call, or none is held, and the
\* held descriptor and the held route are of the same token address.
HeldFromOneFetch ==
    /\ \/ Held(facade) = NoFetched
       \/ \E c \in FetchIds :
             /\ fetches[c].ended = "fetched"
             /\ Held(facade) = fetches[c].fetched
    /\ facade.tokenInfo.present <=> facade.liquidity.present
    /\ facade.tokenInfo.present =>
          facade.liquidity.probed = facade.tokenInfo.address

\* The step that completes a fetchAll call leaves the four values that call
\* fetched, with isLoading and the error cleared.
ReplacedTogether ==
    \A c \in FetchIds :
        (fetches[c].ended # "fetched" /\ fetches'[c].ended = "fetched")
          => /\ Held(facade') = fetches'[c].fetched
             /\ fetches'[c].fetched \in Fetched(fetches[c].address)
             /\ ~facade'.isLoading
             /\ facade'.error = ""

\* C31: a fetchAll that completes replaces descriptor, route, price and
\* balance together by what that one call fetched, and in every state the
\* four held values are those of one call (or none is held), so that the
\* held descriptor and the held route are of the same token address.
C31_HeldTogetherFromOneFetch == []HeldFromOneFetch /\ [][ReplacedTogether]_vars

\* After a fetch of one token a fetch of another token has completed, with
\* no route found, and the facade holds the second token.
C31_Witness ==
    /\ \E b, c \in FetchIds :
          /\ fetches[b].ended = "fetched"
          /\ fetches[b].fetched.liquidity.hasLiquidity
          /\ fetches[c].ended = "fetched"
          /\ fetches[c].address # fetches[b].address
          /\ b < c
          /\ Held(facade) = fetches[c].fetched
    /\ ~facade.liquidity.hasLiquidity
    /\ InFlight = {}

\* What the request issued last leaves when nothing else runs.
OutcomeOfLatest ==
    CASE latest.kind = "reset" -> facade = InitialTokenState
      [] latest.kind = "fetchAll" /\ fetches[latest.id].ended = "fetched" ->
            Held(facade) = fetches[latest.id].fetched
      [] latest.kind = "fetchAll" /\ fetches[latest.id].ended = "caught" ->
            facade.error = "Failed to fetch token info"
      [] latest.kind = "fetchAll" /\ fetches[latest.id].ended = "noAddress" ->
            facade.error = "No valid token address found"
      [] OTHER -> TRUE

\* C36: once every overlapping call has completed the facade holds the
\* outcome of the request issued last (a fetch or a reset), and isLoading is
\* false only when no fetch is in flight.
C36_LatestRequestWins ==
    /\ InFlight = {} => OutcomeOfLatest
    /\ ~facade.isLoading => InFlight = {}

\* Every call has completed, the request issued last was a fetch of one
\* token, and the facade holds another token, fetched by an older call.
C36_OlderFetchOverwrote ==
    /\ InFlight = {}
    /\ latest.kind = "fetchAll"
    /\ fetches[latest.id].ended = "fetched"
    /\ facade.tokenInfo.present
    /\ facade.tokenInfo.address # fetches[latest.id].address
    /\ \E b \in FetchIds : b < latest.id /\ Held(facade) = fetches[b].fetched

\* The field was emptied while a fetch ran, and the fetch has filled the
\* state again after the reset.
C36_FetchAfterReset ==
    /\ InFlight = {}
    /\ latest.kind = "reset"
    /\ facade.tokenInfo.present

(***************************************************************************)
(* Claims about the order of the steps of one trade                         *)
(***************************************************************************)
\* The step a call belongs to: 1 approval, 2 quote, 3 gas estimation,
\* 4 broadcast; 0 for the reads made before them.
StepOfCall(call) ==
    CASE call \in {"allowance", "approve", "approve.wait"} -> 1
      [] call = "getAmountsOut" -> 2
      [] call = "estimateGas" -> 3
      [] call = "swap" -> 4
      [] OTHER -> 0

\* The step the function is about to take.
StepOfPosition ==
    CASE tpc \in {"allowance", "approve", "approvalWait"} -> 1
      [] tpc = "getAmountsOut" -> 2
      [] tpc = "estimateGas" -> 3
      [] tpc = "broadcast" -> 4
      [] OTHER -> 0

\* The calls of the four steps made so far in this trade.
StepCalls == {k \in 1..Len(tlog) : StepOfCall(tlog[k].call) > 0}

\* The call the swap transaction makes, without its gas fields.
BroadcastCall ==
    [method |-> swapTx.method, amountIn |-> swapTx.amountIn,
     amountOutMin |-> swapTx.amountOutMin, value |-> swapTx.value]

\* C33: within one trade the calls are made in the order approval (in a
\* sell only: allowance read, approve, its confirmation), quote, gas
\* estimation, broadcast; a call is made only when every call before it has
\* returned; a buy reads no allowance and approves nothing; and the gas
\* estimation simulated the method, arguments and value that are broadcast.
C33_StepsInOrderSimulationIsBroadcast ==
    /\ \A j, k \in StepCalls :
          j < k =>
            /\ StepOfCall(tlog[j].call) <= StepOfCall(tlog[k].call)
            /\ StepOfCall(tlog[k].call) > 1 =>
                  StepOfCall(tlog[j].call) < StepOfCall(tlog[k].call)
            /\ tlog[j].call # tlog[k].call
            /\ tlog[k].call = "approve" => tlog[j].call = "allowance"
    /\ \A k \in StepCalls :
          /\ StepOfPosition # 0 => StepOfCall(tlog[k].call) <= StepOfPosition
          /\ StepOfPosition > 1 => StepOfCall(tlog[k].call) < StepOfPosition
          /\ tlog[k].call = "approve" => tlog[k - 1].call = "allowance"
          /\ tlog[k].call = "approve.wait" =>
                tlog[k - 1].call = "approve" /\ tlog[k - 1].ok
          /\ (k < Len(tlog) /\ StepOfCall(tlog[k].call) = 1) => tlog[k].ok
          /\ params.dir = "buy" => StepOfCall(tlog[k].call) > 1
          /\ (params.dir = "sell" /\ StepOfCall(tlog[k].call) > 1) =>
                Issued("allowance")
          /\ tlog[k].call = "swap" =>
                /\ tlog[k - 1].call = "estimateGas"
                /\ tlog[k - 1].simulated = BroadcastCall
                /\ swapTx.value = (IF params.dir = "buy" THEN amountIn ELSE 0)
    /\ SwapBroadcast <=> Issued("swap")

\* A sell on a quoting route has gone through every step: the approval was
\* confirmed, the quote answered, the gas was estimated and the swap sent.
C33_Witness ==
    /\ params.dir = "sell"
    /\ tpc = "returned"
    /\ \E a, q, g, s \in StepCalls :
          /\ tlog[a].call = "approve.wait" /\ tlog[a].ok
          /\ tlog[q].call = "getAmountsOut" /\ tlog[q].ok
          /\ tlog[g].call = "estimateGas"
          /\ tlog[s].call = "swap" /\ tlog[s].ok
          /\ a < q /\ q < g /\ g < s
    /\ BroadcastCall.amountOutMin > 0

(***************************************************************************)
(* Claims about the shape of the swap call                                  *)
(***************************************************************************)
\* The call a route of each family is to be sent with, for the direction and
\* the token of the request.
ExpectedCall(dir, token, route) ==
    LET from == IF dir = "buy" THEN WETH_BASE ELSE token
        to   == IF dir = "buy" THEN token ELSE WETH_BASE
        swap == IF dir = "buy"
                  THEN "swapExactETHForTokensSupportingFeeOnTransferTokens"
                  ELSE "swapExactTokensForETHSupportingFeeOnTransferTokens"
    IN  CASE route.dex = "Uniswap V3" ->
               [made |-> TRUE, to |-> UNISWAP_V3_ROUTER, abi |-> "V3_ROUTER_ABI",
                method |-> "exactInputSingle",
                args |-> [tokenIn |-> from, tokenOut |-> to,
                          fee |-> IF route.fee.given THEN route.fee.value
                                  ELSE 3000,
                          sqrtPriceLimitX96 |-> 0]]
          [] route.dex = "Aerodrome" ->
               [made |-> TRUE, to |-> AERODROME_ROUTER,
                abi |-> "AERODROME_ROUTER_ABI", method |-> swap,
                args |-> [routes |-> <<[from |-> from, to |-> to,
                                        stable |-> IF route.isStable.given
                                                     THEN route.isStable.value
                                                     ELSE FALSE]>>]]
          [] route.dex = "Uniswap V2" ->
               [made |-> TRUE, to |-> UNISWAP_V2_ROUTER, abi |-> "V2_ROUTER_ABI",
                method |-> swap, args |-> [path |-> <<from, to>>]]

\* C34: the swap call has the shape of the family of the route read at
\* request time and goes to that family's router: exactInputSingle with the
\* route's fee (3000 when none) and price limit 0 for Uniswap V3, a one-hop
\* route list with the route's stability flag (false when absent) for
\* Aerodrome, the path [WETH, token] or [token, WETH] for Uniswap V2.
C34_CallMatchesRouteFamily ==
    swapCall.made =>
        swapCall = ExpectedCall(tradeParams.dir, tradeParams.tokenAddress,
                                tradeParams.route)

\* A V3 route without a recorded fee was sold through after the panel had
\* moved on to a route of another family.
C34_Witness ==
    /\ swapCall.made
    /\ tradeParams.dir = "sell"
    /\ tradeParams.route.dex = "Uniswap V3"
    /\ ~tradeParams.route.fee.given
    /\ swapCall.args.fee = 3000
    /\ routeProps.liquidity.dex = "Aerodrome"

(***************************************************************************)
(* Claims about approvals                                                   *)
(***************************************************************************)
\* C32: once a sell has confirmed approve(MaxUint256) for a (token, router)
\* pair, and for as long as the allowance of the pair stays at or above
\* MaxUint256 / 2, no sell of that token through that router submits an
\* approve transaction: a sell that begins then goes from its allowance read
\* to its swap.
C32_NoApprovalOnceSettled ==
    /\ \A p \in ApprovalPairs :
          /\ laterApprovals[p] = 0
          /\ settled[p] =>
                approvals[p] >= 1 /\ allowances[p] >= MaxUint256 \div 2
    /\ (sell.pc \in {"approve", "approvalWait"}) => ~settled[sell.pair]

\* A pair was approved once; its allowance has since gone down to
\* MaxUint256 / 2 and a later sell through it has passed ensureApproval
\* without approving, while another pair of the same token is not approved.
C32_Witness ==
    /\ sell.pc = "swap"
    /\ sell.late
    /\ settled[sell.pair]
    /\ approvals[sell.pair] = 1
    /\ allowances[sell.pair] = MaxUint256 \div 2
    /\ \E q \in ApprovalPairs :
          q.token = sell.pair.token /\ q # sell.pair /\ approvals[q] = 0

(***************************************************************************)
(* Claims about the defaults of a token descriptor                          *)
(***************************************************************************)
\* What call c returns when the fields of the set unread could not be read.
DescriptorWithDefaults(c) ==
    [address |-> lookups[c].checksummed,
     name |-> IF "name" \in lookups[c].unread THEN "Unknown" ELSE "Token",
     symbol |-> IF "symbol" \in lookups[c].unread THEN "???" ELSE "TKN",
     decimals |-> IF "decimals" \in lookups[c].unread THEN 18 ELSE TokenDecimals]

\* Every call that read the contract and has returned holds the descriptor
\* in which exactly the unreadable fields have their defaults, and no call
\* is anywhere but at one of its reads or returned.
DefaultsForUnread ==
    \A c \in LookupIds :
        /\ lookups[c].pc \in {"notMade", "decimals", "name", "nameB32", "symbol",
                              "symbolB32", "returned"}
        /\ (lookups[c].pc = "returned" /\ ~lookups[c].hit)
              => lookups[c].info = DescriptorWithDefaults(c)

\* The step in which a call that read the contract returns leaves its
\* descriptor in the cache.
CachedAtReturn ==
    \A c \in LookupIds :
        (lookups[c].pc # "returned" /\ lookups'[c].pc = "returned"
           /\ ~lookups'[c].hit)
          => MapGet(tokenInfoCache', lookups'[c].checksummed)
               = [found |-> TRUE, value |-> lookups'[c].info]

\* C35: getTokenInfo does not fail on a failing contract read: each of
\* name, symbol and decimals that cannot be read (for name and symbol after
\* the bytes32 read) has its default "Unknown", "???" or 18, whatever
\* happened to the others, and the descriptor is returned and cached.
C35_DefaultsPerField == []DefaultsForUnread /\ [][CachedAtReturn]_vars

\* A call has returned a descriptor whose name alone is the default, and
\* another one whose name alone was read.
C35_Witness ==
    \E b, c \in LookupIds :
        /\ lookups[b].pc = "returned" /\ ~lookups[b].hit
        /\ lookups[b].unread = {"name"}
        /\ lookups[b].info.name = "Unknown"
        /\ lookups[b].info.symbol = "TKN"
        /\ lookups[b].info.decimals = TokenDecimals
        /\ lookups[c].pc = "returned" /\ ~lookups[c].hit
        /\ lookups[c].unread = {"symbol", "decimals"}
        /\ lookups[c].info.name = "Token"

(***************************************************************************)
(* Claims about the stored-wallet flag and failed wallet calls              *)
(***************************************************************************)
\* C37: whenever no connect, unlock or disconnect is under way, hasStored
\* is true exactly when persistent storage holds an encrypted blob, after
\* any sequence of connects, unlocks and disconnects, failed ones included.
C37_HasStoredIffBlobStored ==
    submit.pc = "idle" => (walletState.hasStored <=> hasStoredKey(storage))

\* No call is under way and the session shows no stored wallet, yet storage
\* holds a blob.
C37_BlobStoredFlagFalse ==
    /\ submit.pc = "idle"
    /\ ~walletState.isLoading
    /\ ~walletState.isConnected
    /\ ~walletState.hasStored
    /\ formMode = "new"
    /\ hasStoredKey(storage)

\* C38: after a connect or unlock that failed (at key validation,
\* decryption or the balance read) the session is disconnected with
\* isLoading false, one error has been passed to the caller, and storage is
\* as it was before the call: it holds no blob that the failed call wrote.
C38_FailedCallLeavesStorage ==
    (submit.pc = "idle" /\ submit.failure # "")
      => /\ ~walletState.isConnected
         /\ ~walletState.isLoading
         /\ submit.kind = "connect" =>
               \A e \in storage : e.value # submit.encrypted

\* A connect made on a profile that stored nothing has failed at its
\* balance read, and storage holds the blob it wrote.
C38_FailedConnectLeftBlob ==
    /\ submit.kind = "connect"
    /\ submit.pc = "idle"
    /\ submit.failure = "balance read failed"
    /\ ~walletState.hasStored
    /\ storage = {[key |-> STORAGE_KEY, value |-> submit.encrypted]}

(***************************************************************************)
(* Claims about the end of a trade attempt                                  *)
(***************************************************************************)
\* The ways an attempt ends: confirmed, or failed before the broadcast
\* ("threw") or after it ("reverted").
EndedOutcomes == {"confirmed", "threw", "reverted"}

\* No handleTrade is running: the flag is clear, and an attempt that was made
\* has ended confirmed or failed.
AttemptOver ==
    /\ hpc = "idle"
    /\ ~isExecuting
    /\ requests > 0 => outcome \in EndedOutcomes

\* C39: when every awaited network call at last returns or fails, a trade
\* attempt that started ends confirmed or failed, and whichever step failed
\* the executing flag is clear once it has ended, so that the button only
\* depends on canTrade again; the flag is never set while no attempt runs.
C39_AttemptEndsFlagCleared ==
    /\ [](hpc = "idle" => AttemptOver)
    /\ [](isExecuting => hpc # "idle")
    /\ (hpc # "idle") ~> AttemptOver

\* An attempt whose transaction was broadcast and then failed is over, and
\* the button is enabled again.
C39_Witness ==
    /\ AttemptOver
    /\ outcome = "reverted"
    /\ toasts = <<"loading", "broadcast", "error">>
    /\ canTrade
    /\ ~ButtonDisabled(canTrade, isExecuting)

====
